---- MODULE Spec2Model ----
(***************************************************************************)
(* State-machine model of the Debian Tor site engine scripts:              *)
(*   src/setup_darkweb_server.py            the provisioning wizard        *)
(*   src/site-deployment/update_flask_site.py   the site update wizard     *)
(* Text is modelled as a sequence of one-character strings, so that        *)
(* strip(), lower(), splitlines(), split() and join() are computed as      *)
(* Python computes them.                                                   *)
(***************************************************************************)
EXTENDS Integers, Sequences, FiniteSets, TLC

(***************************************************************************)
(* Text helpers (Python str methods, ASCII subset)                         *)
(***************************************************************************)

\* str.isspace() for one character (ASCII white space).
IsSpace(c) == c \in {" ", "\t", "\n", "\r", "\f"}

UpperLetters == <<"A","B","C","D","E","F","G","H","I","J","K","L","M",
                  "N","O","P","Q","R","S","T","U","V","W","X","Y","Z">>

LowerLetters == <<"a","b","c","d","e","f","g","h","i","j","k","l","m",
                  "n","o","p","q","r","s","t","u","v","w","x","y","z">>

\* str.lower() for one character.
LowerChar(c) ==
  IF \E i \in 1..Len(UpperLetters) : UpperLetters[i] = c
  THEN LowerLetters[CHOOSE i \in 1..Len(UpperLetters) : UpperLetters[i] = c]
  ELSE c

\* str.lower()
Lower(s) == [i \in 1..Len(s) |-> LowerChar(s[i])]

RECURSIVE LStrip(_)
LStrip(s) == IF s # <<>> /\ IsSpace(Head(s)) THEN LStrip(Tail(s)) ELSE s

RECURSIVE RStrip(_)
RStrip(s) ==
  IF s # <<>> /\ IsSpace(s[Len(s)]) THEN RStrip(SubSeq(s, 1, Len(s) - 1)) ELSE s

\* str.strip()
Strip(s) == LStrip(RStrip(s))

\* s[i..] starts with sub.
StartsAt(s, sub, i) ==
  /\ i + Len(sub) - 1 <= Len(s)
  /\ SubSeq(s, i, i + Len(sub) - 1) = sub

\* Python's `sub in s` for strings.
Contains(s, sub) == \E i \in 1..(Len(s) + 1) : StartsAt(s, sub, i)

\* Index of the first occurrence of sub in s (0 when there is none).
Find(s, sub) ==
  IF Contains(s, sub)
  THEN CHOOSE i \in 1..(Len(s) + 1) :
         /\ StartsAt(s, sub, i)
         /\ \A j \in 1..(i - 1) : ~StartsAt(s, sub, j)
  ELSE 0

\* s.split(sep)[0]: the text before the first occurrence of sep, or all of s.
SplitHead(s, sep) ==
  IF Contains(s, sep) THEN SubSeq(s, 1, Find(s, sep) - 1) ELSE s

\* Concatenation of a sequence of texts.
RECURSIVE Concat(_)
Concat(ss) == IF ss = <<>> THEN <<>> ELSE Head(ss) \o Concat(Tail(ss))

\* sep.join(ss)
RECURSIVE Join(_, _)
Join(ss, sep) ==
  IF ss = <<>> THEN <<>>
  ELSE IF Len(ss) = 1 THEN Head(ss)
  ELSE Head(ss) \o sep \o Join(Tail(ss), sep)

\* Text mode reading (universal newlines): "\r\n" and "\r" are read as "\n".
RECURSIVE UniversalNewlines(_)
UniversalNewlines(b) ==
  IF b = <<>> THEN <<>>
  ELSE IF Head(b) = "\r"
  THEN IF Len(b) >= 2 /\ b[2] = "\n"
       THEN <<"\n">> \o UniversalNewlines(SubSeq(b, 3, Len(b)))
       ELSE <<"\n">> \o UniversalNewlines(Tail(b))
  ELSE <<Head(b)>> \o UniversalNewlines(Tail(b))

\* Characters at which str.splitlines() breaks a line (ASCII subset; "\r\n"
\* counts once).
IsLineBreak(c) == c \in {"\n", "\r", "\f"}

\* str.splitlines(): the lines without their line breaks; no empty last line.
RECURSIVE SplitLinesFrom(_, _)
SplitLinesFrom(s, cur) ==
  IF s = <<>> THEN (IF cur = <<>> THEN <<>> ELSE <<cur>>)
  ELSE IF IsLineBreak(Head(s))
  THEN IF Head(s) = "\r" /\ Len(s) >= 2 /\ s[2] = "\n"
       THEN <<cur>> \o SplitLinesFrom(SubSeq(s, 3, Len(s)), <<>>)
       ELSE <<cur>> \o SplitLinesFrom(Tail(s), <<>>)
  ELSE SplitLinesFrom(Tail(s), Append(cur, Head(s)))

SplitLines(s) == SplitLinesFrom(s, <<>>)

(***************************************************************************)
(* Console input                                                           *)
(***************************************************************************)

\* input() at end of input raises EOFError; the token stands for that.
EOF == <<"<EOF>">>

Y_ == <<"y">>
YES_ == <<"y","e","s">>
N_ == <<"n">>
NO_ == <<"n","o">>

\* Lines the operator may type at a yes/no prompt.
AnswerLines ==
  { <<"y">>, <<"Y","e","s">>, <<" ","y","e","s"," ">>,
    <<"n">>, <<"N","O">>, <<"n","o","\t">>,
    <<>>, <<"m","a","y","b","e">>, <<"y","e","s","!">> }

\* A mutant of ask_user: a line that is not a yes counts as a no.
ask_user_default_no(line) ==
  IF Lower(Strip(line)) \in {<<"y">>, <<"y","e","s">>} THEN "yes" ELSE "no"

\* One pass of the loop of ask_user on one input line: the function returns
\* True ("yes") or False ("no"), or prints the hint and prompts again.
ask_user(line) ==
  LET choice == Lower(Strip(line)) IN
  IF choice \in {Y_, YES_} THEN "yes"
  ELSE IF choice \in {N_, NO_} THEN "no"
  ELSE "again"

(***************************************************************************)
(* setup_darkweb_server.py: the provisioning wizard                        *)
(***************************************************************************)

\* One call of run_command: the command line and its exit_on_fail argument.
Cmd(c, f) == [cmd |-> c, exit_on_fail |-> f]

purge_old_tor ==
  << Cmd("systemctl disable tor@default --now", FALSE),
     Cmd("systemctl disable tor --now", FALSE),
     Cmd("rm -rf /etc/tor/instances", FALSE),
     Cmd("apt-get purge -y tor", FALSE),
     Cmd("rm -f /etc/tor/torrc /etc/tor/torrc.*", FALSE),
     Cmd("rm -rf /var/lib/tor/*", FALSE) >>

fix_time ==
  << Cmd("apt-get update && apt-get install -y ntpdate", FALSE),
     Cmd("ntpdate -u pool.ntp.org", FALSE),
     Cmd("timedatectl set-ntp true", FALSE) >>

\* The commands run when detect_selinux() returned True.
disable_selinux_if_present ==
  << Cmd("setenforce 0", FALSE),
     Cmd("sed -i SELINUX=disabled /etc/selinux/config", FALSE) >>

install_tor_and_security ==
  << Cmd("apt-get update && apt-get install -y tor ufw fail2ban ...", TRUE) >>

\* The command of write_minimal_torrc; the write of the file follows it.
write_minimal_torrc ==
  << Cmd("rm -f /etc/tor/torrc", FALSE) >>

\* The commands of enable_tor_single_instance; the polling loop follows them.
enable_tor_single_instance ==
  << Cmd("systemctl enable tor", TRUE),
     Cmd("systemctl restart tor", TRUE),
     Cmd("mkdir -p /var/log/tor && chmod 755 /var/log/tor", FALSE) >>

secure_server ==
  << Cmd("ufw default allow outgoing", TRUE),
     Cmd("ufw default deny incoming", TRUE),
     Cmd("ufw allow 22/tcp", TRUE),
     Cmd("ufw allow 9050", TRUE),
     Cmd("ufw allow 80", TRUE),
     Cmd("ufw --force enable", TRUE),
     Cmd("systemctl enable fail2ban && systemctl start fail2ban", TRUE),
     Cmd("sed -i PasswordAuthentication yes /etc/ssh/sshd_config", TRUE),
     Cmd("systemctl restart ssh", TRUE) >>

\* The steps of main, in the order main asks about them.
StepNames ==
  << "purge", "time_sync", "selinux", "install", "torrc", "enable_tor", "secure" >>

Steps == 1..Len(StepNames)

\* Index of a step in StepNames.
StepOf(name) == CHOOSE i \in Steps : StepNames[i] = name

\* The run_command calls of each step.
Commands(s) ==
  CASE StepNames[s] = "purge"      -> purge_old_tor
    [] StepNames[s] = "time_sync"  -> fix_time
    [] StepNames[s] = "selinux"    -> disable_selinux_if_present
    [] StepNames[s] = "install"    -> install_tor_and_security
    [] StepNames[s] = "torrc"      -> write_minimal_torrc
    [] StepNames[s] = "enable_tor" -> enable_tor_single_instance
    [] StepNames[s] = "secure"     -> secure_server

\* Exit statuses an external command may end with.
ExitStatuses == {0, 1}

\* A mutant of run_command: every failure ends the process.
run_command_always_exits(rc, exit_on_fail) ==
  IF rc = 0 THEN "stdout" ELSE "exit"

\* A mutant of run_command: a failure is returned even when exit_on_fail.
run_command_never_exits(rc, exit_on_fail) ==
  IF rc = 0 THEN "stdout" ELSE "None"

\* run_command: a zero exit status returns the captured stdout; a non-zero
\* one ends the process when exit_on_fail, and returns None otherwise.
run_command(rc, exit_on_fail) ==
  IF rc = 0 THEN "stdout"
  ELSE IF exit_on_fail THEN "exit"
  ELSE "None"

max_wait == 60

sleep_interval == 5

\* A path with no file at it.
Absent == <<"<absent>">>

\* A local variable not assigned yet.
Unbound == <<"<unbound>">>

UNAVAILABLE == <<"U","N","A","V","A","I","L","A","B","L","E">>

NOT_GENERATED == <<"(","n","o","t"," ","g","e","n","e","r","a","t","e","d",")">>

HTTP == <<"h","t","t","p",":","/","/">>

ONION == <<"a","b","c",".","o","n","i","o","n">>

\* What the Tor daemon may write to /var/lib/tor/hidden_service/hostname.
HostnameContents ==
  { ONION \o <<"\n">>,
    <<" ">> \o ONION \o <<"\r","\n">>,
    <<"\n">>,
    UNAVAILABLE \o <<"\n">> }

\* The exit code of a process that has not ended.
NotExited == 0 - 1

VARIABLES
  pc,               \* position of main
  euid,             \* os.geteuid()
  step,             \* the step main is at
  cmdIdx,           \* the next run_command call of the step
  status,           \* per step: Pending, Skipped, Succeeded, FailedSoft, FailedFatal
  softFailed,       \* some run_command of the running step returned None
  asked,            \* steps whose confirmation was asked
  mutated,          \* steps that ran a command or wrote a file
  answers,          \* per step: what the operator answered ("none", "yes", "no")
  fatalHit,         \* a command run with exit_on_fail=True ended non-zero
  fatal,            \* why the process ended early
  exitCode,         \* the exit code of the process
  onion_addr,       \* local variable of main
  summary,          \* the final message printed by main
  torrc,            \* /etc/tor/torrc
  hostname_file,    \* /var/lib/tor/hidden_service/hostname
  elapsed,          \* local variable of enable_tor_single_instance
  appearedElapsed,  \* value of elapsed when the hostname file appeared
  appearedAsleep,   \* the file appeared strictly inside a sleep(5)
  runs              \* per step: how many times main called the step's function

VARIABLES
  u_pc,         \* position of main of update_flask_site.py
  u_euid,       \* os.geteuid()
  fs,           \* the files: path -> bytes, or Absent
  fs0,          \* the files when the wizard started
  svc,          \* state of the systemd service
  new_content,  \* local variable of replace_entire_file
  lines,        \* local variable of replace_entire_file (manual mode)
  source,       \* where the new content is to come from: NONE, MANUAL or the path named
  new_message,  \* local variable of edit_only_landing_content
  outcome,      \* what the edit function reported
  effects,      \* what the run asked of the host and did to it, in order
  u_exitCode,   \* the exit code of the process
  u_fatal,      \* why the process ended early
  history,      \* what the target held before each full replacement, in order
  typed,        \* what input() met in manual capture, in order, EOF included
  mode          \* the edit mode selected, trimmed

VARIABLES
  f_pc,         \* position of main of flask.py
  f_euid,       \* os.geteuid()
  f_cmdIdx,     \* the next run_command call of the running function
  f_confirmed,  \* the questions of main the operator answered with a yes
  f_effects,    \* what the run did to the host, in order
  dir_choice,   \* local variable of main
  port_num,     \* local variable of main
  srv_name,     \* local variable of main
  f_exitCode,   \* the exit code of the process
  f_fatal       \* why the process ended early

VARIABLES
  c_pc,         \* position of one call of run_command
  c_call,       \* the call: which script, exit_on_fail, what the command does
  c_result,     \* what the call returned
  c_executions, \* how many times the call ran the command
  c_exitCode,   \* the exit code of the process
  a_pc,         \* position of one call of ask_user
  a_console,    \* the lines the operator will type
  a_typed,      \* the lines ask_user has read
  a_result,     \* what the call returned
  a_hints       \* how many times the hint was printed

updVars ==
  << u_pc, u_euid, fs, fs0, svc, new_content, lines, source, new_message,
     outcome, effects, u_exitCode, u_fatal, history, typed, mode >>

flaskVars ==
  << f_pc, f_euid, f_cmdIdx, f_confirmed, f_effects, dir_choice, port_num,
     srv_name, f_exitCode, f_fatal >>

callVars ==
  << c_pc, c_call, c_result, c_executions, c_exitCode,
     a_pc, a_console, a_typed, a_result, a_hints >>

setupVars ==
  << pc, euid, step, cmdIdx, status, softFailed, asked, mutated, answers,
     fatalHit, fatal, exitCode, onion_addr, summary, torrc, hostname_file, elapsed,
     appearedElapsed, appearedAsleep, runs >>

vars == << setupVars, updVars, flaskVars, callVars >>

NoSummary == [printed |-> FALSE, addr_line |-> <<>>, url |-> <<>>]

ConsoleInputs == AnswerLines \cup {EOF}

\* The provisioning wizard is not running.
IdleSetup ==
  /\ pc = "idle"
  /\ euid = 0
  /\ step = 1
  /\ cmdIdx = 1
  /\ status = [s \in Steps |-> "Pending"]
  /\ softFailed = FALSE
  /\ asked = {}
  /\ mutated = {}
  /\ answers = [s \in Steps |-> "none"]
  /\ fatalHit = FALSE
  /\ fatal = "none"
  /\ exitCode = NotExited
  /\ onion_addr = Unbound
  /\ summary = NoSummary
  /\ torrc = "prior"
  /\ hostname_file = Absent
  /\ elapsed = 0
  /\ appearedElapsed = NotExited
  /\ appearedAsleep = FALSE
  /\ runs = [s \in Steps |-> 0]

InitSetup ==
  /\ pc = "check_root"
  /\ euid \in {0, 1000}
  /\ step = 1
  /\ cmdIdx = 1
  /\ status = [s \in Steps |-> "Pending"]
  /\ softFailed = FALSE
  /\ asked = {}
  /\ mutated = {}
  /\ answers = [s \in Steps |-> "none"]
  /\ fatalHit = FALSE
  /\ fatal = "none"
  /\ exitCode = NotExited
  /\ onion_addr = Unbound
  /\ summary = NoSummary
  /\ torrc = "prior"
  /\ hostname_file = Absent
  /\ elapsed = 0
  /\ appearedElapsed = NotExited
  /\ appearedAsleep = FALSE
  /\ runs = [s \in Steps |-> 0]

\* A mutant of Die: the process ends with code 0.
DieZero(cause) ==
  /\ pc' = "exited"
  /\ exitCode' = 0
  /\ fatal' = cause

\* sys.exit(1), or an uncaught exception: the process ends with code 1.
Die(cause) ==
  /\ pc' = "exited"
  /\ exitCode' = 1
  /\ fatal' = cause

\* A mutant of is_root: every user passes the check.
is_root_anyone(uid) == TRUE

\* The test of check_root: os.geteuid() != 0 is an error.
is_root(uid) == uid = 0

\* check_root, then the banner.
CheckRoot ==
  /\ pc = "check_root"
  /\ IF ~is_root(euid)
     THEN /\ Die("privilege")
          /\ UNCHANGED step
     ELSE /\ pc' = "ask"
          /\ UNCHANGED << exitCode, fatal, step >>
  /\ UNCHANGED << euid, runs, cmdIdx, status, softFailed, asked, mutated, answers, fatalHit,
                  onion_addr, summary, torrc, hostname_file, elapsed,
                  appearedElapsed, appearedAsleep >>
  /\ UNCHANGED << updVars, flaskVars, callVars >>

\* Where main goes when step s is over: the next question, or the final message.
AfterStep(s) == IF s < Len(StepNames) THEN "ask" ELSE "summary"

\* A mutant of NextStep: main stays at the step it was at.
NextStepStays(s) == s

\* The step main is at when step s is over.
NextStep(s) == IF s < Len(StepNames) THEN s + 1 ELSE s

\* A mutant of Outcome: a step whose action returned stays Pending.
OutcomeStaysPending(failedSoft) == "Pending"

\* The state of a step whose action returned.
Outcome(failedSoft) == IF failedSoft THEN "FailedSoft" ELSE "Succeeded"

\* Where an accepted step starts.
StartOf(s) == IF StepNames[s] = "selinux" THEN "detect_selinux" ELSE "cmd"

\* The lines of AnswerLines by which the operator means yes, and no.
AffirmativeLines == { <<"y">>, <<"Y","e","s">>, <<" ","y","e","s"," ">> }

NegativeLines == { <<"n">>, <<"N","O">>, <<"n","o","\t">> }

\* What the operator meant by a line.
Meant(line) ==
  IF line \in AffirmativeLines THEN "yes"
  ELSE IF line \in NegativeLines THEN "no"
  ELSE "none"

\* One input line at the question of the current step (ask_user in main).
AskUser ==
  /\ pc = "ask"
  /\ \E line \in ConsoleInputs :
       IF line = EOF
       THEN /\ Die("eof")
            /\ UNCHANGED << step, status, onion_addr, answers >>
       ELSE LET answer == ask_user(line) IN
            /\ answers' = [answers EXCEPT ![step] =
                             IF Meant(line) = "none" THEN @ ELSE Meant(line)]
            /\ CASE answer = "yes" ->
                      /\ pc' = StartOf(step)
                      /\ UNCHANGED << step, status, onion_addr, exitCode, fatal >>
                 [] answer = "no" ->
                      /\ pc' = AfterStep(step)
                      /\ step' = NextStep(step)
                      /\ status' = [status EXCEPT ![step] = "Skipped"]
                      /\ onion_addr' = IF StepNames[step] = "enable_tor"
                                       THEN UNAVAILABLE ELSE onion_addr
                      /\ UNCHANGED << exitCode, fatal >>
                 [] answer = "again" ->
                      UNCHANGED << pc, step, status, onion_addr, exitCode, fatal >>
  /\ asked' = asked \cup {step}
  /\ cmdIdx' = 1
  /\ softFailed' = FALSE
  /\ runs' = IF pc' = StartOf(step) THEN [runs EXCEPT ![step] = @ + 1] ELSE runs
  /\ UNCHANGED << euid, mutated, fatalHit, summary, torrc, hostname_file,
                  elapsed, appearedElapsed, appearedAsleep >>
  /\ UNCHANGED << updVars, flaskVars, callVars >>

\* detect_selinux() in disable_selinux_if_present.
DetectSelinux ==
  /\ pc = "detect_selinux"
  /\ \E present \in BOOLEAN :
       IF present
       THEN /\ pc' = "cmd"
            /\ UNCHANGED << step, status >>
       ELSE /\ pc' = AfterStep(step)
            /\ step' = NextStep(step)
            /\ status' = [status EXCEPT ![step] = Outcome(FALSE)]
  /\ UNCHANGED << euid, runs, cmdIdx, softFailed, asked, mutated, answers, fatalHit, fatal,
                  exitCode, onion_addr, summary, torrc, hostname_file, elapsed,
                  appearedElapsed, appearedAsleep >>
  /\ UNCHANGED << updVars, flaskVars, callVars >>

\* Where a step goes after its last run_command call.
AfterCommands(s) ==
  CASE StepNames[s] = "torrc"      -> "write_torrc"
    [] StepNames[s] = "enable_tor" -> "poll"
    [] OTHER                       -> AfterStep(s)

\* One run_command call of the running step.
RunCommand ==
  /\ pc = "cmd"
  /\ \E rc \in ExitStatuses :
       LET c == Commands(step)[cmdIdx]
           r == run_command(rc, c.exit_on_fail)
           failedSoft == softFailed \/ r = "None"
       IN
       /\ fatalHit' = (rc # 0 /\ c.exit_on_fail)
       /\ mutated' = mutated \cup {step}
       /\ IF r = "exit"
          THEN /\ Die("command")
               /\ status' = [status EXCEPT ![step] = "FailedFatal"]
               /\ UNCHANGED << step, cmdIdx, softFailed, elapsed >>
          ELSE IF cmdIdx < Len(Commands(step))
          THEN /\ cmdIdx' = cmdIdx + 1
               /\ softFailed' = failedSoft
               /\ UNCHANGED << pc, step, status, exitCode, fatal, elapsed >>
          ELSE IF AfterCommands(step) \in {"write_torrc", "poll"}
          THEN /\ pc' = AfterCommands(step)
               /\ softFailed' = failedSoft
               /\ elapsed' = 0
               /\ UNCHANGED << step, cmdIdx, status, exitCode, fatal >>
          ELSE /\ pc' = AfterStep(step)
               /\ step' = NextStep(step)
               /\ status' = [status EXCEPT ![step] = Outcome(failedSoft)]
               /\ softFailed' = failedSoft
               /\ UNCHANGED << cmdIdx, exitCode, fatal, elapsed >>
  /\ UNCHANGED << euid, runs, asked, answers, onion_addr, summary, torrc,
                  hostname_file, appearedElapsed, appearedAsleep >>
  /\ UNCHANGED << updVars, flaskVars, callVars >>

\* Path("/etc/tor/torrc").write_text(minimal_conf) in write_minimal_torrc.
WriteTorrc ==
  /\ pc = "write_torrc"
  /\ torrc' = "minimal_conf"
  /\ mutated' = mutated \cup {step}
  /\ pc' = AfterStep(step)
  /\ step' = NextStep(step)
  /\ status' = [status EXCEPT ![step] = Outcome(softFailed)]
  /\ UNCHANGED << euid, runs, cmdIdx, softFailed, asked, answers, fatalHit, fatal, exitCode,
                  onion_addr, summary, hostname_file, elapsed, appearedElapsed,
                  appearedAsleep >>
  /\ UNCHANGED << updVars, flaskVars, callVars >>

\* The Tor daemon writes the hostname file: at the instant of a check
\* (pc = "poll", time = elapsed) or strictly inside a sleep (pc = "sleep",
\* elapsed < time < elapsed + 5). Nothing removes the file afterwards.
HostnameAppears ==
  /\ pc \in {"poll", "sleep"}
  /\ hostname_file = Absent
  /\ \E content \in HostnameContents : hostname_file' = content
  /\ appearedElapsed' = elapsed
  /\ appearedAsleep' = (pc = "sleep")
  /\ UNCHANGED << pc, euid, runs, step, cmdIdx, status, softFailed, asked, mutated,
                  answers, fatalHit, fatal, exitCode, onion_addr, summary, torrc,
                  elapsed >>
  /\ UNCHANGED << updVars, flaskVars, callVars >>

\* A mutant of PollTest: the loop also checks at elapsed = max_wait.
PollTestInclusive(e) == e <= max_wait

\* The loop condition of the polling loop.
PollTest(e) == e < max_wait

\* A mutant of PollRead: the content is returned as read.
PollReadRaw(content) == content

\* hostname_file.read_text().strip()
PollRead(content) == Strip(content)

\* The loop test and the existence check of the polling loop, and what
\* follows the loop.
PollCheck ==
  /\ pc = "poll"
  /\ IF PollTest(elapsed)
     THEN IF hostname_file # Absent
          THEN /\ onion_addr' = PollRead(hostname_file)
               /\ pc' = AfterStep(step)
               /\ step' = NextStep(step)
               /\ status' = [status EXCEPT ![step] = Outcome(softFailed)]
               /\ UNCHANGED << exitCode, fatal >>
          ELSE /\ pc' = "sleep"
               /\ UNCHANGED << step, status, onion_addr, exitCode, fatal >>
     ELSE /\ Die("timeout")
          /\ status' = [status EXCEPT ![step] = "FailedFatal"]
          /\ UNCHANGED << step, onion_addr >>
  /\ UNCHANGED << euid, runs, cmdIdx, softFailed, asked, mutated, answers, fatalHit, summary,
                  torrc, hostname_file, elapsed, appearedElapsed, appearedAsleep >>
  /\ UNCHANGED << updVars, flaskVars, callVars >>

\* time.sleep(5); elapsed += 5
PollSleep ==
  /\ pc = "sleep"
  /\ elapsed' = elapsed + sleep_interval
  /\ pc' = "poll"
  /\ UNCHANGED << euid, runs, step, cmdIdx, status, softFailed, asked, mutated,
                  answers, fatalHit, fatal, exitCode, onion_addr, summary, torrc,
                  hostname_file, appearedElapsed, appearedAsleep >>
  /\ UNCHANGED << updVars, flaskVars, callVars >>

\* A mutant of FinalMessage: the address line shows onion_addr as it is.
FinalMessageNoPlaceholder(addr) ==
  [ printed   |-> TRUE,
    addr_line |-> addr,
    url       |-> HTTP \o addr ]

\* The final message of main.
FinalMessage(addr) ==
  [ printed   |-> TRUE,
    addr_line |-> IF addr # UNAVAILABLE THEN addr ELSE NOT_GENERATED,
    url       |-> HTTP \o addr ]

\* main prints the final message and returns.
Summary ==
  /\ pc = "summary"
  /\ summary' = FinalMessage(onion_addr)
  /\ pc' = "done"
  /\ exitCode' = 0
  /\ UNCHANGED << euid, runs, step, cmdIdx, status, softFailed, asked, mutated,
                  answers, fatalHit, fatal, onion_addr, torrc, hostname_file, elapsed,
                  appearedElapsed, appearedAsleep >>
  /\ UNCHANGED << updVars, flaskVars, callVars >>

NextSetup ==
  \/ CheckRoot
  \/ AskUser
  \/ DetectSelinux
  \/ RunCommand
  \/ WriteTorrc
  \/ HostnameAppears
  \/ PollCheck
  \/ PollSleep
  \/ Summary

(***************************************************************************)
(* update_flask_site.py: the site update wizard                            *)
(***************************************************************************)

Q == "\""

RETURN == <<"r","e","t","u","r","n">>

\* Lines an app.py may hold.
\*    return "Old", 200
Line200 == <<" ">> \o RETURN \o <<" ", Q, "O","l","d", Q, ",", " ", "2","0","0">>

\*    return "No", 404
Line404 == <<" ">> \o RETURN \o <<" ", Q, "N","o", Q, ",", " ", "4","0","4">>

\*    return f("a"), 200
LineCall == <<" ">> \o RETURN \o <<" ", "f", "(", Q, "a", Q, ")", ",", " ", "2","0","0">>

\*   x = 1
LinePlain == <<"x", " ", "=", " ", "1">>

\*   run("h", 80)
LineRun == <<"r","u","n","(", Q, "h", Q, ",", " ", "8","0", ")">>

AppLines == { Line200, Line404, LineCall, LinePlain, LineRun }

\* The most lines of a modelled app.py.
MaxLines == 2

\* The most lines the operator types in manual mode.
MaxTyped == 2

\* Sequences over S of length at most n.
SeqsUpTo(S, n) == UNION { [1..k -> S] : k \in 0..n }

\* The bytes of a file holding the given lines, each ended by "\n".
FileOf(ls) == Concat([i \in 1..Len(ls) |-> ls[i] \o <<"\n">>])

\* Contents app.py may have when the wizard starts: files of up to MaxLines
\* lines, one with DOS line ends and one without a final line end.
AppContents ==
  { FileOf(ls) : ls \in SeqsUpTo(AppLines, MaxLines) }
  \cup { Line200 \o <<"\r","\n">> \o LinePlain \o <<"\r","\n">>,
         LinePlain \o <<"\n">> \o LineRun }

\* Contents of the file the operator may name as the new code.
SourceContents ==
  { FileOf(<< LinePlain, Line404 >>),
    LineRun \o <<"\r","\n">> \o <<" ">> \o <<"\n">> }

\* Content of a backup left by an earlier replacement.
OldBackup == FileOf(<< LineRun >>)

APP_PATH == <<"a","p","p",".","p","y">>

SRC_PATH == <<"n","e","w",".","p","y">>

MISSING_PATH == <<"n","o","n","e">>

\* Index of the last "." of a path (0 when there is none).
LastDot(path) ==
  IF \E i \in 1..Len(path) : path[i] = "."
  THEN CHOOSE i \in 1..Len(path) :
         path[i] = "." /\ \A j \in (i + 1)..Len(path) : path[j] # "."
  ELSE 0

\* A mutant of with_suffix: the suffix is appended to the name.
with_suffix_appended(path, suffix) == path \o suffix

\* PurePath.with_suffix
with_suffix(path, suffix) ==
  IF LastDot(path) = 0 THEN path \o suffix
  ELSE SubSeq(path, 1, LastDot(path) - 1) \o suffix

\* backup_path = app_path.with_suffix(".bak")
BAK_PATH == with_suffix(APP_PATH, <<".","b","a","k">>)

\* The path of a backup named by appending ".bak" to the name of the target.
PY_BAK_PATH == APP_PATH \o <<".","b","a","k">>

Paths == { APP_PATH, BAK_PATH, SRC_PATH, PY_BAK_PATH }

\* A mutant of IsFile: the path is not looked up.
IsFileUnchecked(files, path) == path \in DOMAIN files

\* Path.is_file() / Path.exists()
IsFile(files, path) == path \in DOMAIN files /\ files[path] # Absent

\* Path.read_text(): text mode, universal newlines.
ReadText(bytes) == UniversalNewlines(bytes)

\* Path.write_text(): on Linux the text is written as it is.
WriteText(text) == text

\* A mutant of ReplaceFile: the source is removed and nothing is moved.
ReplaceFileLosesSource(files, from, to) == [files EXCEPT ![from] = Absent]

\* A mutant of ReplaceFile: an existing backup is kept, the target is dropped.
ReplaceFileKeepsExisting(files, from, to) ==
  IF files[to] # Absent
  THEN [files EXCEPT ![from] = Absent]
  ELSE [files EXCEPT ![to] = files[from], ![from] = Absent]

\* Path.replace(): rename, overwriting the destination.
ReplaceFile(files, from, to) ==
  [files EXCEPT ![to] = files[from], ![from] = Absent]

MANUAL == <<"m","a","n","u","a","l">>

\* What the operator may type at "Enter file path or 'manual'".
ChoiceLines ==
  { MANUAL, <<" ","M","a","n","u","a","l">>,
    SRC_PATH, <<" ">> \o SRC_PATH \o <<" ">>, APP_PATH, BAK_PATH,
    MISSING_PATH, <<>> }

\* What the operator may type as a line of code in manual mode.
TypedLines == { <<>>, <<" ">>, <<"x">>, <<" ","y"," ">> }

\* What the operator may type as the new site message.
MessageLines == { <<"N","e","w">>, <<" ","H","i"," ">>, <<>>, <<" ">> }

\* What the operator may type at "Select [1/2]".
ModeLines == { <<"1">>, <<" ","2"," ">>, <<"2">>, <<"3">>, <<>> }

\* The new content of manual mode: "\n".join(lines).strip()
ManualContent(ls) == Strip(Join(ls, <<"\n">>))

RETURN_SP == RETURN \o <<" ">>

\* The test of edit_only_landing_content for a line to replace.
LooksLikeReturn(line) ==
  /\ Contains(line, RETURN_SP)
  /\ Contains(line, <<Q>>)
  /\ Contains(line, <<",">>)

\* new_line = f'{prefix}"{new_message}", 200' with
\* prefix = line.split('return')[0] + 'return '
PatchedLine(line, message) ==
  SplitHead(line, RETURN) \o RETURN_SP
    \o <<Q>> \o message \o <<Q, ",", " ", "2", "0", "0">>

\* updated_lines of edit_only_landing_content.
UpdatedLines(original, message) ==
  [i \in 1..Len(original) |->
     IF LooksLikeReturn(original[i])
     THEN PatchedLine(original[i], message)
     ELSE original[i]]

\* replaced of edit_only_landing_content.
Replaced(original) == \E i \in 1..Len(original) : LooksLikeReturn(original[i])

\* A mutant of ShouldWrite: the file is written whether or not a line matched.
ShouldWriteAlways(replaced) == TRUE

\* `if replaced:` guards the write of edit_only_landing_content.
ShouldWrite(replaced) == replaced

\* What "systemctl is-active" may answer for a service.
StatusResults(state) ==
  IF state = "active"
  THEN { [rc |-> 0, stdout |-> <<"a","c","t","i","v","e","\n">>] }
  ELSE { [rc |-> 3, stdout |-> <<"i","n","a","c","t","i","v","e","\n">>],
         [rc |-> 3, stdout |-> <<"f","a","i","l","e","d","\n">>] }

ACTIVE == <<"a","c","t","i","v","e">>

\* What run_command gives back besides the captured text.
NONE == <<"<None>">>

EXIT == <<"<exit>">>

\* A mutant of update_run_command: stdout is returned as captured.
update_run_command_untrimmed(res, exit_on_fail) ==
  IF res.rc = 0 THEN res.stdout
  ELSE IF exit_on_fail THEN <<"<exit>">>
  ELSE <<"<None>">>

\* run_command of update_flask_site.py: the trimmed stdout on a zero exit
\* status; on a non-zero one sys.exit(1) when exit_on_fail, else None.
update_run_command(res, exit_on_fail) ==
  IF res.rc = 0 THEN Strip(res.stdout)
  ELSE IF exit_on_fail THEN EXIT
  ELSE NONE

\* The update wizard is not running.
IdleUpdate ==
  /\ u_pc = "idle"
  /\ u_euid = 0
  /\ fs = <<>>
  /\ fs0 = <<>>
  /\ svc = "inactive"
  /\ new_content = Unbound
  /\ lines = <<>>
  /\ source = NONE
  /\ new_message = Unbound
  /\ outcome = "none"
  /\ effects = <<>>
  /\ u_exitCode = NotExited
  /\ u_fatal = "none"
  /\ history = <<>>
  /\ typed = <<>>
  /\ mode = Unbound

InitUpdate ==
  /\ u_pc = "check_root"
  /\ u_euid \in {0, 1000}
  /\ \E app \in AppContents \cup {Absent},
        bak \in {Absent, OldBackup},
        src \in SourceContents \cup {Absent} :
       fs = [p \in Paths |-> IF p = APP_PATH THEN app
                             ELSE IF p = BAK_PATH THEN bak
                             ELSE IF p = SRC_PATH THEN src
                             ELSE Absent]
  /\ fs0 = fs
  /\ svc \in {"active", "inactive"}
  /\ new_content = Unbound
  /\ lines = <<>>
  /\ source = NONE
  /\ new_message = Unbound
  /\ outcome = "none"
  /\ effects = <<>>
  /\ u_exitCode = NotExited
  /\ u_fatal = "none"
  /\ history = <<>>
  /\ typed = <<>>
  /\ mode = Unbound

\* sys.exit(1), or an uncaught exception, in update_flask_site.py.
UDie(cause) ==
  /\ u_pc' = "exited"
  /\ u_exitCode' = 1
  /\ u_fatal' = cause

\* check_root of update_flask_site.py.
UCheckRoot ==
  /\ u_pc = "check_root"
  /\ IF ~is_root(u_euid)
     THEN UDie("privilege")
     ELSE /\ u_pc' = "ask_dir"
          /\ UNCHANGED << u_exitCode, u_fatal >>
  /\ UNCHANGED << u_euid, mode, typed, history, fs, fs0, svc, new_content, lines, source, new_message,
                  outcome, effects >>
  /\ UNCHANGED << setupVars, flaskVars, callVars >>

\* The directory question, and the checks of the directory and of app.py.
UAskDir ==
  /\ u_pc = "ask_dir"
  /\ \E line \in {<<>>, <<"/","s","r","v">>, EOF}, isdir \in BOOLEAN :
       /\ IsFile(fs, APP_PATH) => isdir
       /\ IF line = EOF THEN UDie("eof")
          ELSE IF ~isdir THEN UDie("no_directory")
          ELSE IF ~IsFile(fs, APP_PATH) THEN UDie("no_app_file")
          ELSE /\ u_pc' = "ask_service"
               /\ UNCHANGED << u_exitCode, u_fatal >>
  /\ UNCHANGED << u_euid, mode, typed, history, fs, fs0, svc, new_content, lines, source, new_message,
                  outcome, effects >>
  /\ UNCHANGED << setupVars, flaskVars, callVars >>

\* The service name question.
UAskService ==
  /\ u_pc = "ask_service"
  /\ \E line \in {<<>>, <<"w","e","b">>, EOF} :
       IF line = EOF THEN UDie("eof")
       ELSE /\ u_pc' = "ask_stop"
            /\ UNCHANGED << u_exitCode, u_fatal >>
  /\ UNCHANGED << u_euid, mode, typed, history, fs, fs0, svc, new_content, lines, source, new_message,
                  outcome, effects >>
  /\ UNCHANGED << setupVars, flaskVars, callVars >>

\* One input line at a yes/no question of the update wizard: where main goes
\* on yes and on no, and what the log of the run records of a yes.
UAsk(at, onYes, onNo, agreed) ==
  /\ u_pc = at
  /\ \E line \in ConsoleInputs :
       IF line = EOF
       THEN /\ UDie("eof")
            /\ UNCHANGED effects
       ELSE /\ u_pc' = CASE ask_user(line) = "yes" -> onYes
                         [] ask_user(line) = "no" -> onNo
                         [] OTHER -> at
            /\ effects' = IF ask_user(line) = "yes" THEN effects \o agreed ELSE effects
            /\ UNCHANGED << u_exitCode, u_fatal >>
  /\ UNCHANGED << u_euid, mode, typed, history, fs, fs0, svc, new_content, lines, source, new_message,
                  outcome >>
  /\ UNCHANGED << setupVars, flaskVars, callVars >>

\* "Stop systemd service before proceeding?"
UAskStop == UAsk("ask_stop", "query_status", "select_mode", <<>>)

\* A mutant of ReportsActive: every answer counts as active.
ReportsActiveAlways(result) == TRUE

\* `result and "active" in result.lower()` in stop_service_if_running.
ReportsActive(result) ==
  result # NONE /\ result # <<>> /\ Contains(Lower(result), ACTIVE)

\* The status query of stop_service_if_running.
UQueryStatus ==
  /\ u_pc = "query_status"
  /\ \E res \in StatusResults(svc) :
       LET result == update_run_command(res, FALSE) IN
       /\ u_pc' = IF ReportsActive(result) THEN "ask_stop_running" ELSE "select_mode"
       /\ effects' = Append(effects, IF res.rc = 0 THEN "reported_active"
                                     ELSE "reported_not_active")
  /\ UNCHANGED << u_euid, mode, typed, history, fs, fs0, svc, new_content, lines, source, new_message,
                  outcome, u_exitCode, u_fatal >>
  /\ UNCHANGED << setupVars, flaskVars, callVars >>

\* "Stop service before editing the site?"
UAskStopRunning ==
  UAsk("ask_stop_running", "stop_service", "select_mode", <<"agreed_stop">>)

\* run_command("systemctl stop ...") in stop_service_if_running.
UStopService ==
  /\ u_pc = "stop_service"
  /\ \E rc \in ExitStatuses :
       LET result == update_run_command([rc |-> rc, stdout |-> <<>>], TRUE) IN
       IF result = EXIT
       THEN /\ UDie("command")
            /\ effects' = Append(effects, "stop_failed")
            /\ UNCHANGED svc
       ELSE /\ svc' = "inactive"
            /\ effects' = Append(effects, "stop")
            /\ u_pc' = "select_mode"
            /\ UNCHANGED << u_exitCode, u_fatal >>
  /\ UNCHANGED << u_euid, mode, typed, history, fs, fs0, new_content, lines, source, new_message,
                  outcome >>
  /\ UNCHANGED << setupVars, flaskVars, callVars >>

\* A mutant of Dispatch: any selection but "1" is taken as the patch.
DispatchDefaultsToPatch(selected) ==
  IF selected = <<"1">> THEN "replace_choice" ELSE "edit_message"

\* The if / elif / else of main on the selected mode: where main goes.
Dispatch(selected) ==
  IF selected = <<"1">> THEN "replace_choice"
  ELSE IF selected = <<"2">> THEN "edit_message"
  ELSE "done"

\* The edit mode question and the dispatch on it.
USelectMode ==
  /\ u_pc = "select_mode"
  /\ \E line \in ModeLines \cup {EOF} :
       IF line = EOF
       THEN /\ UDie("eof")
            /\ UNCHANGED << mode, outcome >>
       ELSE /\ mode' = Strip(line)
            /\ IF Dispatch(mode') = "done"
               THEN /\ u_pc' = "done"
                    /\ u_exitCode' = 0
                    /\ outcome' = "invalid_selection"
                    /\ UNCHANGED u_fatal
               ELSE /\ u_pc' = Dispatch(mode')
                    /\ UNCHANGED << outcome, u_exitCode, u_fatal >>
  /\ UNCHANGED << u_euid, typed, history, fs, fs0, svc, new_content, lines, source,
                  new_message, effects >>
  /\ UNCHANGED << setupVars, flaskVars, callVars >>

\* replace_entire_file: the question for the source, and the reading of a
\* named file.
UReplaceChoice ==
  /\ u_pc = "replace_choice"
  /\ \E line \in ChoiceLines \cup {EOF} :
       LET choice == Strip(line) IN
       IF line = EOF
       THEN /\ UDie("eof")
            /\ UNCHANGED << new_content, source, outcome >>
       ELSE IF Lower(choice) = MANUAL
       THEN /\ u_pc' = "manual_input"
            /\ source' = MANUAL
            /\ UNCHANGED << new_content, outcome, u_exitCode, u_fatal >>
       ELSE IF ~IsFile(fs, choice)
       THEN /\ u_pc' = "ask_restart"
            /\ outcome' = "source_not_found"
            /\ source' = choice
            /\ UNCHANGED << new_content, u_exitCode, u_fatal >>
       ELSE /\ u_pc' = "backup"
            /\ new_content' = ReadText(fs[choice])
            /\ source' = choice
            /\ UNCHANGED << outcome, u_exitCode, u_fatal >>
  /\ UNCHANGED << u_euid, mode, typed, history, fs, fs0, svc, lines, new_message, effects >>
  /\ UNCHANGED << setupVars, flaskVars, callVars >>

\* A mutant of EndsCapture: any blank line ends the capture.
EndsCaptureOnAnyBlank(line, ls) == Strip(line) = <<>>

\* `not line.strip() and len(lines) > 0` in the manual mode loop.
EndsCapture(line, ls) == Strip(line) = <<>> /\ Len(ls) > 0

\* One input() of the manual mode loop of replace_entire_file.
UManualInput ==
  /\ u_pc = "manual_input"
  /\ \E line \in TypedLines \cup {EOF} :
       /\ typed' = Append(typed, line)
       /\ IF line # EOF /\ ~EndsCapture(line, lines)
          THEN /\ Len(lines) < MaxTyped
               /\ lines' = Append(lines, line)
               /\ UNCHANGED << u_pc, new_content >>
          ELSE /\ new_content' = ManualContent(lines)
               /\ u_pc' = "backup"
               /\ UNCHANGED lines
  /\ UNCHANGED << u_euid, mode, history, fs, fs0, svc, source, new_message, outcome, effects,
                  u_exitCode, u_fatal >>
  /\ UNCHANGED << setupVars, flaskVars, callVars >>

\* replace_entire_file: the existing file is renamed to the backup path.
UBackup ==
  /\ u_pc = "backup"
  /\ IF IsFile(fs, APP_PATH)
     THEN /\ fs' = ReplaceFile(fs, APP_PATH, BAK_PATH)
          /\ effects' = Append(effects, "rename")
          /\ history' = Append(history, fs[APP_PATH])
     ELSE UNCHANGED << fs, effects, history >>
  /\ u_pc' = "write"
  /\ UNCHANGED << u_euid, mode, typed, fs0, svc, new_content, lines, source, new_message,
                  outcome, u_exitCode, u_fatal >>
  /\ UNCHANGED << setupVars, flaskVars, callVars >>

\* What a write_text() that raises may leave at the path: the file as open()
\* truncated it, or the text up to where the write stopped.
CutShort(text) == { <<>>, SubSeq(text, 1, Len(text) \div 2) }

\* replace_entire_file: app_path.write_text(new_content).  The call writes
\* the text, or raises before the file is opened, or raises after open()
\* created the file; the exception is not caught and ends the process.
UWrite ==
  /\ u_pc = "write"
  /\ \/ /\ fs' = [fs EXCEPT ![APP_PATH] = WriteText(new_content)]
        /\ effects' = Append(effects, "write")
        /\ outcome' = "replaced"
        /\ u_pc' = "ask_restart"
        /\ UNCHANGED << u_exitCode, u_fatal >>
     \/ /\ UDie("exception")
        /\ effects' = Append(effects, "write_failed")
        /\ UNCHANGED << fs, outcome >>
     \/ /\ UDie("exception")
        /\ \E left \in CutShort(WriteText(new_content)) :
             fs' = [fs EXCEPT ![APP_PATH] = left]
        /\ effects' = Append(effects, "write_failed")
        /\ UNCHANGED outcome
  /\ UNCHANGED << u_euid, mode, typed, history, fs0, svc, new_content, lines, source,
                  new_message >>
  /\ UNCHANGED << setupVars, flaskVars, callVars >>

\* Exit statuses of a process ended by SIGINT or SIGKILL.
SignalStatuses == {130, 137}

\* replace_entire_file is interrupted before the rename, or between the
\* rename and the write: the process ends there.
UInterrupt ==
  /\ u_pc \in {"backup", "write"}
  /\ u_pc' = "exited"
  /\ u_fatal' = "interrupted"
  /\ u_exitCode' \in SignalStatuses
  /\ UNCHANGED << u_euid, mode, typed, history, fs, fs0, svc, new_content, lines, source,
                  new_message, outcome, effects >>
  /\ UNCHANGED << setupVars, flaskVars, callVars >>

\* edit_only_landing_content: the existence check and the message question.
UEditMessage ==
  /\ u_pc = "edit_message"
  /\ IF ~IsFile(fs, APP_PATH)
     THEN /\ u_pc' = "ask_restart"
          /\ outcome' = "app_not_found"
          /\ UNCHANGED << new_message, u_exitCode, u_fatal >>
     ELSE \E line \in MessageLines \cup {EOF} :
            IF line = EOF
            THEN /\ UDie("eof")
                 /\ UNCHANGED << new_message, outcome >>
            ELSE IF Strip(line) = <<>>
            THEN /\ u_pc' = "ask_restart"
                 /\ outcome' = "no_message"
                 /\ UNCHANGED << new_message, u_exitCode, u_fatal >>
            ELSE /\ u_pc' = "edit_lines"
                 /\ new_message' = Strip(line)
                 /\ UNCHANGED << outcome, u_exitCode, u_fatal >>
  /\ UNCHANGED << u_euid, mode, typed, history, fs, fs0, svc, new_content, lines, source, effects >>
  /\ UNCHANGED << setupVars, flaskVars, callVars >>

\* edit_only_landing_content: the file is read, its lines are patched, and
\* the file is written when a line was replaced.
UEditLines ==
  /\ u_pc = "edit_lines"
  /\ LET original_content == SplitLines(ReadText(fs[APP_PATH]))
         updated_lines == UpdatedLines(original_content, new_message)
         replaced == Replaced(original_content)
     IN
     IF ShouldWrite(replaced)
     THEN /\ fs' = [fs EXCEPT ![APP_PATH] =
                      WriteText(Join(updated_lines, <<"\n">>) \o <<"\n">>)]
          /\ effects' = Append(effects, "write")
          /\ outcome' = IF replaced THEN "updated" ELSE "no_match"
     ELSE /\ outcome' = "no_match"
          /\ UNCHANGED << fs, effects >>
  /\ u_pc' = "ask_restart"
  /\ UNCHANGED << u_euid, mode, typed, history, fs0, svc, new_content, lines, source, new_message,
                  u_exitCode, u_fatal >>
  /\ UNCHANGED << setupVars, flaskVars, callVars >>

\* "Restart systemd service now?"
UAskRestart ==
  UAsk("ask_restart", "restart_service", "final", <<"agreed_restart">>)

\* restart_service with the flag left at its default: a failure ends the
\* process.
restart_service_exits(res) == update_run_command(res, TRUE)

\* restart_service: run_command("systemctl restart ...", exit_on_fail=False)
restart_service(res) == update_run_command(res, FALSE)

\* restart_service as main calls it, and the success message after it.
URestartService ==
  /\ u_pc = "restart_service"
  /\ \E rc \in ExitStatuses :
       LET result == restart_service([rc |-> rc, stdout |-> <<>>]) IN
       IF result = EXIT
       THEN /\ UDie("command")
            /\ effects' = Append(effects, "restart_failed")
            /\ UNCHANGED svc
       ELSE IF result = NONE
       THEN /\ effects' = Append(effects, "restart_failed")
            /\ u_pc' = "final"
            /\ UNCHANGED << svc, u_exitCode, u_fatal >>
       ELSE /\ effects' = Append(effects, "restart")
            /\ svc' = "active"
            /\ u_pc' = "final"
            /\ UNCHANGED << u_exitCode, u_fatal >>
  /\ UNCHANGED << u_euid, mode, typed, history, fs, fs0, new_content, lines, source, new_message,
                  outcome >>
  /\ UNCHANGED << setupVars, flaskVars, callVars >>

\* The final message of main; main returns.
UFinal ==
  /\ u_pc = "final"
  /\ u_pc' = "done"
  /\ u_exitCode' = 0
  /\ UNCHANGED << u_euid, mode, typed, history, fs, fs0, svc, new_content, lines, source, new_message,
                  outcome, effects, u_fatal >>
  /\ UNCHANGED << setupVars, flaskVars, callVars >>

NextUpdate ==
  \/ UCheckRoot
  \/ UAskDir
  \/ UAskService
  \/ UAskStop
  \/ UQueryStatus
  \/ UAskStopRunning
  \/ UStopService
  \/ USelectMode
  \/ UReplaceChoice
  \/ UManualInput
  \/ UBackup
  \/ UWrite
  \/ UInterrupt
  \/ UEditMessage
  \/ UEditLines
  \/ UAskRestart
  \/ URestartService
  \/ UFinal

\* The most full replacements followed one after the other.
MaxReplacements == 2

\* Contents of app.py before the first of several replacements.
FirstAppContents == { FileOf(<< Line200 >>), FileOf(<< LinePlain, Line404 >>) }

\* replace_entire_file is entered with app.py present, as main enters it
\* after "1" was selected.
InitReplace ==
  /\ u_pc = "replace_choice"
  /\ u_euid = 0
  /\ \E app \in FirstAppContents,
        bak \in {Absent, OldBackup},
        src \in SourceContents \cup {Absent} :
       fs = [p \in Paths |-> IF p = APP_PATH THEN app
                             ELSE IF p = BAK_PATH THEN bak
                             ELSE IF p = SRC_PATH THEN src
                             ELSE Absent]
  /\ fs0 = fs
  /\ svc = "inactive"
  /\ new_content = Unbound
  /\ lines = <<>>
  /\ source = NONE
  /\ new_message = Unbound
  /\ outcome = "none"
  /\ effects = <<>>
  /\ u_exitCode = NotExited
  /\ u_fatal = "none"
  /\ history = <<>>
  /\ typed = <<>>
  /\ mode = <<"1">>

\* The wizard is run again on the files the run before left, and main
\* enters replace_entire_file once more.
UReplaceAgain ==
  /\ u_pc = "ask_restart"
  /\ Len(history) < MaxReplacements
  /\ u_pc' = "replace_choice"
  /\ fs0' = fs
  /\ new_content' = Unbound
  /\ lines' = <<>>
  /\ source' = NONE
  /\ outcome' = "none"
  /\ effects' = <<>>
  /\ typed' = <<>>
  /\ UNCHANGED << u_euid, mode, history, fs, svc, new_message, u_exitCode, u_fatal >>
  /\ UNCHANGED << setupVars, flaskVars, callVars >>

NextReplace ==
  \/ UReplaceChoice
  \/ UManualInput
  \/ UBackup
  \/ UWrite
  \/ UReplaceAgain

(***************************************************************************)
(* flask.py: the front-end deploy wizard                                   *)
(***************************************************************************)

\* run_command of flask.py: the trimmed stdout on a zero exit status; on a
\* non-zero one sys.exit(1) when exit_on_fail, else None.
flask_run_command(res, exit_on_fail) ==
  IF res.rc = 0 THEN Strip(res.stdout)
  ELSE IF exit_on_fail THEN EXIT
  ELSE NONE

\* The run_command calls of install_flask (exit_on_fail defaults to True).
install_flask ==
  << Cmd("apt-get update", TRUE),
     Cmd("apt-get install -y python3 python3-pip python3-flask", TRUE) >>

\* The run_command calls of create_systemd_service, after the unit file is
\* written.
create_systemd_service ==
  << Cmd("systemctl daemon-reload", TRUE),
     Cmd("systemctl enable service_name", TRUE),
     Cmd("systemctl restart service_name", TRUE) >>

default_dir == <<"/","o","p","t">>

default_service_name == <<"e","x","f","i","l","0">>

\* What the operator may type at "Where to deploy the Flask app?".
DirLines == { <<>>, <<" ","/","s","r","v"," ">> }

\* What the operator may type at "Which port should Flask listen on?".
PortLines ==
  { <<>>, <<"8","0","8","0">>, <<" ","4","4","3"," ">>, <<"a","b","c">>,
    <<"8"," ","0">>, <<"+","7">> }

\* What the operator may type at "Service name?" and "Run service as user?".
NameLines == { <<>>, <<"w","e","b"," ">> }

Digits == <<"0","1","2","3","4","5","6","7","8","9">>

IsDigit(c) == \E i \in 1..Len(Digits) : Digits[i] = c

DigitValue(c) == (CHOOSE i \in 1..Len(Digits) : Digits[i] = c) - 1

\* The value of a text of decimal digits.
RECURSIVE DigitsValue(_)
DigitsValue(s) ==
  IF s = <<>> THEN 0
  ELSE 10 * DigitsValue(SubSeq(s, 1, Len(s) - 1)) + DigitValue(s[Len(s)])

\* int(text) succeeds: an optional sign, then decimal digits (white space
\* around them is allowed).
IsInt(text) ==
  LET t == Strip(text)
      d == IF t # <<>> /\ Head(t) \in {"+", "-"} THEN Tail(t) ELSE t
  IN d # <<>> /\ \A i \in 1..Len(d) : IsDigit(d[i])

\* int(text)
ParseInt(text) ==
  LET t == Strip(text) IN
  IF Head(t) = "-" THEN 0 - DigitsValue(Tail(t))
  ELSE IF Head(t) = "+" THEN DigitsValue(Tail(t))
  ELSE DigitsValue(t)

\* port_num of main: int(port_choice), or 80 on ValueError.
PortNumber(port_choice) == IF IsInt(port_choice) THEN ParseInt(port_choice) ELSE 80

\* The deploy wizard is not running.
IdleFlask ==
  /\ f_pc = "idle"
  /\ f_euid = 0
  /\ f_cmdIdx = 1
  /\ f_confirmed = {}
  /\ f_effects = <<>>
  /\ dir_choice = Unbound
  /\ port_num = 0
  /\ srv_name = Unbound
  /\ f_exitCode = NotExited
  /\ f_fatal = "none"

InitFlask ==
  /\ f_pc = "check_root"
  /\ f_euid \in {0, 1000}
  /\ f_cmdIdx = 1
  /\ f_confirmed = {}
  /\ f_effects = <<>>
  /\ dir_choice = Unbound
  /\ port_num = 0
  /\ srv_name = Unbound
  /\ f_exitCode = NotExited
  /\ f_fatal = "none"

\* sys.exit(1), or an uncaught exception, in flask.py.
FDie(cause) ==
  /\ f_pc' = "exited"
  /\ f_exitCode' = 1
  /\ f_fatal' = cause

\* check_root of flask.py.
FCheckRoot ==
  /\ f_pc = "check_root"
  /\ IF ~is_root(f_euid)
     THEN FDie("privilege")
     ELSE /\ f_pc' = "ask_install"
          /\ UNCHANGED << f_exitCode, f_fatal >>
  /\ UNCHANGED << f_euid, f_cmdIdx, f_confirmed, f_effects, dir_choice, port_num,
                  srv_name >>
  /\ UNCHANGED << setupVars, updVars, callVars >>

\* One input line at a yes/no question of the deploy wizard.
FAsk(at, onYes, onNo) ==
  /\ f_pc = at
  /\ \E line \in ConsoleInputs :
       IF line = EOF
       THEN /\ FDie("eof")
            /\ UNCHANGED f_confirmed
       ELSE /\ f_pc' = CASE ask_user(line) = "yes" -> onYes
                         [] ask_user(line) = "no" -> onNo
                         [] OTHER -> at
            /\ f_confirmed' = IF Meant(line) = "yes"
                              THEN f_confirmed \cup {at} ELSE f_confirmed
            /\ UNCHANGED << f_exitCode, f_fatal >>
  /\ f_cmdIdx' = 1
  /\ UNCHANGED << f_euid, f_effects, dir_choice, port_num, srv_name >>
  /\ UNCHANGED << setupVars, updVars, callVars >>

\* A mutant of FAskInstall: install_flask is called on no as well.
FAskInstallEitherWay == FAsk("ask_install", "install", "install")

\* "Install Flask (and prerequisites) via apt-get & pip?"
FAskInstall == FAsk("ask_install", "install", "ask_dir")

\* One run_command call of the function main is in: install_flask at
\* "install", create_systemd_service at "service".
FRunCommand(at, commands, after) ==
  /\ f_pc = at
  /\ \E rc \in ExitStatuses :
       LET c == commands[f_cmdIdx]
           result == flask_run_command([rc |-> rc, stdout |-> <<>>], c.exit_on_fail)
       IN
       /\ f_effects' = Append(f_effects, at)
       /\ IF result = EXIT
          THEN /\ FDie("command")
               /\ UNCHANGED f_cmdIdx
          ELSE /\ f_pc' = IF f_cmdIdx < Len(commands) THEN at ELSE after
               /\ f_cmdIdx' = IF f_cmdIdx < Len(commands) THEN f_cmdIdx + 1 ELSE 1
               /\ UNCHANGED << f_exitCode, f_fatal >>
  /\ UNCHANGED << f_euid, f_confirmed, dir_choice, port_num, srv_name >>
  /\ UNCHANGED << setupVars, updVars, callVars >>

FInstall == FRunCommand("install", install_flask, "ask_dir")

\* "Where to deploy the Flask app?"
FAskDir ==
  /\ f_pc = "ask_dir"
  /\ \E line \in DirLines \cup {EOF} :
       IF line = EOF
       THEN /\ FDie("eof")
            /\ UNCHANGED dir_choice
       ELSE /\ dir_choice' = IF Strip(line) = <<>> THEN default_dir ELSE Strip(line)
            /\ f_pc' = "ask_port"
            /\ UNCHANGED << f_exitCode, f_fatal >>
  /\ UNCHANGED << f_euid, f_cmdIdx, f_confirmed, f_effects, port_num, srv_name >>
  /\ UNCHANGED << setupVars, updVars, callVars >>

\* "Which port should Flask listen on?", and the conversion of the answer.
FAskPort ==
  /\ f_pc = "ask_port"
  /\ \E line \in PortLines \cup {EOF} :
       IF line = EOF
       THEN /\ FDie("eof")
            /\ UNCHANGED port_num
       ELSE /\ port_num' = IF Strip(line) = <<>> THEN PortNumber(<<"8","0">>)
                           ELSE PortNumber(Strip(line))
            /\ f_pc' = "write_app"
            /\ UNCHANGED << f_exitCode, f_fatal >>
  /\ UNCHANGED << f_euid, f_cmdIdx, f_confirmed, f_effects, dir_choice, srv_name >>
  /\ UNCHANGED << setupVars, updVars, callVars >>

\* write_flask_app(dir_choice, port_num): the directory is made and app.py
\* is written; main calls it without a question.
FWriteApp ==
  /\ f_pc = "write_app"
  /\ f_effects' = f_effects \o << "mkdir", "write_app" >>
  /\ f_pc' = "ask_service"
  /\ UNCHANGED << f_euid, f_cmdIdx, f_confirmed, dir_choice, port_num, srv_name,
                  f_exitCode, f_fatal >>
  /\ UNCHANGED << setupVars, updVars, callVars >>

\* "Create a systemd service to run Flask in the background?"
FAskService == FAsk("ask_service", "ask_srv_name", "final")

\* "Service name?"
FAskSrvName ==
  /\ f_pc = "ask_srv_name"
  /\ \E line \in NameLines \cup {EOF} :
       IF line = EOF
       THEN /\ FDie("eof")
            /\ UNCHANGED srv_name
       ELSE /\ srv_name' = IF Strip(line) = <<>> THEN default_service_name
                           ELSE Strip(line)
            /\ f_pc' = "ask_run_user"
            /\ UNCHANGED << f_exitCode, f_fatal >>
  /\ UNCHANGED << f_euid, f_cmdIdx, f_confirmed, f_effects, dir_choice, port_num >>
  /\ UNCHANGED << setupVars, updVars, callVars >>

\* "Run service as user?"
FAskRunUser ==
  /\ f_pc = "ask_run_user"
  /\ \E line \in NameLines \cup {EOF} :
       IF line = EOF
       THEN FDie("eof")
       ELSE /\ f_pc' = "write_unit"
            /\ UNCHANGED << f_exitCode, f_fatal >>
  /\ UNCHANGED << f_euid, f_cmdIdx, f_confirmed, f_effects, dir_choice, port_num,
                  srv_name >>
  /\ UNCHANGED << setupVars, updVars, callVars >>

\* create_systemd_service: systemd_path.write_text(service_file)
FWriteUnit ==
  /\ f_pc = "write_unit"
  /\ f_effects' = Append(f_effects, "write_unit")
  /\ f_pc' = "service"
  /\ f_cmdIdx' = 1
  /\ UNCHANGED << f_euid, f_confirmed, dir_choice, port_num, srv_name,
                  f_exitCode, f_fatal >>
  /\ UNCHANGED << setupVars, updVars, callVars >>

FService == FRunCommand("service", create_systemd_service, "final")

\* The final message of main; main returns.
FFinal ==
  /\ f_pc = "final"
  /\ f_pc' = "done"
  /\ f_exitCode' = 0
  /\ UNCHANGED << f_euid, f_cmdIdx, f_confirmed, f_effects, dir_choice, port_num,
                  srv_name, f_fatal >>
  /\ UNCHANGED << setupVars, updVars, callVars >>

NextFlask ==
  \/ FCheckRoot
  \/ FAskInstall
  \/ FInstall
  \/ FAskDir
  \/ FAskPort
  \/ FWriteApp
  \/ FAskService
  \/ FAskSrvName
  \/ FAskRunUser
  \/ FWriteUnit
  \/ FService
  \/ FFinal

(***************************************************************************)
(* One call of run_command, and one call of ask_user                       *)
(***************************************************************************)

\* run_command of setup_darkweb_server.py with the value it returns: the
\* trimmed stdout, None, or sys.exit(1).
setup_run_command(res, exit_on_fail) ==
  CASE run_command(res.rc, exit_on_fail) = "stdout" -> Strip(res.stdout)
    [] run_command(res.rc, exit_on_fail) = "exit"   -> EXIT
    [] run_command(res.rc, exit_on_fail) = "None"   -> NONE

\* What a command may print on stdout.
Outputs ==
  { <<>>, <<"o","k","\n">>, <<" ","a"," ","b"," ","\r","\n">>, <<"\n">> }

\* How a command may end: subprocess.run(check=True) raises
\* CalledProcessError on every non-zero exit status.
CommandResults == [rc : {0, 1, 2}, stdout : Outputs]

Scripts == {"setup", "update", "flask"}

\* run_command as the named script defines it.
run_command_of(script, res, exit_on_fail) ==
  CASE script = "setup"  -> setup_run_command(res, exit_on_fail)
    [] script = "update" -> update_run_command(res, exit_on_fail)
    [] script = "flask"  -> flask_run_command(res, exit_on_fail)

\* No call of run_command or ask_user is being followed.
IdleCall ==
  /\ c_pc = "idle"
  /\ c_call = [script |-> "setup", res |-> [rc |-> 0, stdout |-> <<>>],
               exit_on_fail |-> TRUE]
  /\ c_result = Unbound
  /\ c_executions = 0
  /\ c_exitCode = NotExited
  /\ a_pc = "idle"
  /\ a_console = <<>>
  /\ a_typed = <<>>
  /\ a_result = "none"
  /\ a_hints = 0

\* A call of run_command: the script, the exit_on_fail argument, and how the
\* command is going to end.
InitCommand ==
  /\ c_pc = "call"
  /\ c_call \in [script : Scripts, res : CommandResults, exit_on_fail : BOOLEAN]
  /\ c_result = Unbound
  /\ c_executions = 0
  /\ c_exitCode = NotExited
  /\ a_pc = "idle"
  /\ a_console = <<>>
  /\ a_typed = <<>>
  /\ a_result = "none"
  /\ a_hints = 0

\* The body of run_command: subprocess.run once, then the return or the exit.
CallRunCommand ==
  /\ c_pc = "call"
  /\ c_executions' = c_executions + 1
  /\ LET result == run_command_of(c_call.script, c_call.res, c_call.exit_on_fail) IN
     IF result = EXIT
     THEN /\ c_pc' = "exited"
          /\ c_exitCode' = 1
          /\ UNCHANGED c_result
     ELSE /\ c_pc' = "returned"
          /\ c_result' = result
          /\ UNCHANGED c_exitCode
  /\ UNCHANGED << c_call, a_pc, a_console, a_typed, a_result, a_hints >>
  /\ UNCHANGED << setupVars, updVars, flaskVars >>

\* The most lines the operator types at one question.
MaxAnswers == 3

\* A call of ask_user, and the lines the operator is going to type; the
\* input ends after them.
InitAsk ==
  /\ a_pc = "prompt"
  /\ a_console \in SeqsUpTo(AnswerLines, MaxAnswers)
  /\ a_typed = <<>>
  /\ a_result = "none"
  /\ a_hints = 0
  /\ c_pc = "idle"
  /\ c_call = [script |-> "setup", res |-> [rc |-> 0, stdout |-> <<>>],
               exit_on_fail |-> TRUE]
  /\ c_result = Unbound
  /\ c_executions = 0
  /\ c_exitCode = NotExited

\* One pass of the loop of ask_user: input(), then the return or the hint.
AskRead ==
  /\ a_pc = "prompt"
  /\ IF a_console = <<>>
     THEN /\ a_pc' = "EOFError"
          /\ UNCHANGED << a_console, a_typed, a_result, a_hints >>
     ELSE LET line == Head(a_console) IN
          /\ a_console' = Tail(a_console)
          /\ a_typed' = Append(a_typed, line)
          /\ IF ask_user(line) = "again"
             THEN /\ a_hints' = a_hints + 1
                  /\ UNCHANGED << a_pc, a_result >>
             ELSE /\ a_result' = ask_user(line)
                  /\ a_pc' = "returned"
                  /\ UNCHANGED a_hints
  /\ UNCHANGED << c_pc, c_call, c_result, c_executions, c_exitCode >>
  /\ UNCHANGED << setupVars, updVars, flaskVars >>

(***************************************************************************)
(* Specifications                                                          *)
(***************************************************************************)

\* A run of the provisioning wizard.
Init == InitSetup /\ IdleUpdate /\ IdleFlask /\ IdleCall

Next == NextSetup

Spec == Init /\ [][Next]_vars

\* A run of the site update wizard.
UpdateInit == IdleSetup /\ InitUpdate /\ IdleFlask /\ IdleCall

UpdateSpec == UpdateInit /\ [][NextUpdate]_vars

\* Full replacements of app.py, one after the other.
ReplaceInit == IdleSetup /\ InitReplace /\ IdleFlask /\ IdleCall

ReplaceSpec == ReplaceInit /\ [][NextReplace]_vars

\* A run of the deploy wizard.
FlaskInit == IdleSetup /\ IdleUpdate /\ InitFlask /\ IdleCall

FlaskSpec == FlaskInit /\ [][NextFlask]_vars

\* A run of any one of the three scripts.
EntryInit == Init \/ UpdateInit \/ FlaskInit

EntryNext == NextSetup \/ NextUpdate \/ NextFlask

EntrySpec == EntryInit /\ [][EntryNext]_vars

\* One call of run_command.
CommandInit == IdleSetup /\ IdleUpdate /\ IdleFlask /\ InitCommand

CommandSpec == CommandInit /\ [][CallRunCommand]_vars

\* One call of ask_user.
AskInit == IdleSetup /\ IdleUpdate /\ IdleFlask /\ InitAsk

AskSpec == AskInit /\ [][AskRead]_vars

\* enable_tor_single_instance alone: main has declined the steps before it
\* and accepted this one. The process keeps running (it is single-threaded
\* and sleep returns), so the steps of the function are weakly fair.
InitPoll ==
  /\ pc = "cmd"
  /\ euid = 0
  /\ step = StepOf("enable_tor")
  /\ cmdIdx = 1
  /\ status = [s \in Steps |-> IF s < StepOf("enable_tor") THEN "Skipped" ELSE "Pending"]
  /\ softFailed = FALSE
  /\ asked = 1..StepOf("enable_tor")
  /\ mutated = {}
  /\ answers = [s \in Steps |-> IF s < StepOf("enable_tor") THEN "no"
                                ELSE IF s = StepOf("enable_tor") THEN "yes"
                                ELSE "none"]
  /\ fatalHit = FALSE
  /\ fatal = "none"
  /\ exitCode = NotExited
  /\ onion_addr = Unbound
  /\ summary = NoSummary
  /\ torrc = "prior"
  /\ hostname_file = Absent
  /\ elapsed = 0
  /\ appearedElapsed = NotExited
  /\ appearedAsleep = FALSE
  /\ runs = [s \in Steps |-> IF s = StepOf("enable_tor") THEN 1 ELSE 0]
  /\ IdleUpdate
  /\ IdleFlask
  /\ IdleCall

NextPoll ==
  \/ RunCommand
  \/ HostnameAppears
  \/ PollCheck
  \/ PollSleep

PollSpec ==
  /\ InitPoll
  /\ [][NextPoll]_vars
  /\ WF_vars(RunCommand)
  /\ WF_vars(PollCheck)
  /\ WF_vars(PollSleep)

(***************************************************************************)
(* Claims about the provisioning wizard                                    *)
(***************************************************************************)

\* The polling loop is running.
Polling == pc \in {"poll", "sleep"}

\* The hostname file came into existence at a time t < max_wait after the
\* polling started (t = appearedElapsed, or appearedElapsed < t <
\* appearedElapsed + 5 when it appeared inside a sleep).
AppearedInTime == hostname_file # Absent /\ appearedElapsed < max_wait

\* C1: if the hostname file comes into existence at any time t with
\* 0 <= t < 60 after polling starts, and stays, the poller returns the
\* file's trimmed content and does not time out.
C1_AppearedInTimeIsReturned ==
  (AppearedInTime /\ ~Polling) =>
     /\ fatal # "timeout"
     /\ onion_addr = Strip(hostname_file)

\* C2: the polling loop terminates, and when the hostname file never appears
\* it ends by reporting the timeout; the timeout is reported only with
\* elapsed at max_wait, elapsed never exceeds max_wait, and in the loop
\* elapsed changes only by +5.
C2_PollTerminatesAtMaxWait ==
  /\ [](elapsed \in 0..max_wait)
  /\ [](fatal = "timeout" => elapsed >= max_wait)
  /\ [][Polling => (elapsed' = elapsed \/ elapsed' = elapsed + 5)]_vars
  /\ (Polling ~> ~Polling)
  /\ ([](hostname_file = Absent) => (Polling ~> (fatal = "timeout")))

\* C2 witness: the loop ended with the timeout, the file never having appeared.
C2_Witness ==
  /\ fatal = "timeout"
  /\ hostname_file = Absent
  /\ elapsed = max_wait

\* A fatal failure happened: a command run with exit_on_fail=True ended
\* non-zero, or the poll timed out.
FatalFailure(hit, cause) == hit \/ cause = "timeout"

\* C7: a fatal command failure or the poll timeout ends the run at once with
\* exit code 1, and after the process has ended nothing happens any more: no
\* further command, no further question.
C7_FatalFailureEndsRun ==
  [][ /\ FatalFailure(fatalHit', fatal') => (pc' = "exited" /\ exitCode' = 1)
      /\ exitCode # NotExited => UNCHANGED vars ]_vars

\* C7 witness: the first command of enable_tor_single_instance failed; two
\* more commands of the step, the polling and the security step were left.
C7_Witness ==
  /\ fatalHit
  /\ pc = "exited"
  /\ StepNames[step] = "enable_tor"
  /\ cmdIdx = 1
  /\ asked = 1..step

\* The run ended: main returned, or a step failed fatally.
RunEnded == pc = "done" \/ (pc = "exited" /\ fatal \in {"command", "timeout"})

\* What the final message shows of the address.
SummaryShowsAddress ==
  /\ status[StepOf("enable_tor")] \in {"Succeeded", "FailedSoft"} =>
       /\ summary.url = HTTP \o Strip(hostname_file)
       /\ Strip(hostname_file) # UNAVAILABLE =>
            summary.addr_line = Strip(hostname_file)
  /\ status[StepOf("enable_tor")] = "Skipped" =>
       /\ summary.addr_line = NOT_GENERATED
       /\ summary.url = HTTP \o UNAVAILABLE

\* C8 as claimed: every run that ended, after the last step or after a fatal
\* failure, has printed the summary, which shows the address or the
\* placeholder.
C8_EveryRunPrintsSummary ==
  RunEnded => (summary.printed /\ SummaryShowsAddress)

\* C8 as amended: the summary is printed exactly by the runs that reach the
\* end of main (exit code 0); a run ended by a fatal failure prints none.
\* The printed summary shows the trimmed content of the hostname file when
\* the Tor step ran and succeeded, and the placeholders when it was skipped.
C8_SummaryOnlyOnCompletion ==
  /\ summary.printed <=> pc = "done"
  /\ pc = "done" => exitCode = 0
  /\ pc = "exited" => (exitCode = 1 /\ ~summary.printed)
  /\ summary.printed => SummaryShowsAddress

\* C8 witness: a completed run that discovered an address and printed it.
C8_Witness ==
  /\ summary.printed
  /\ status[StepOf("enable_tor")] = "Succeeded"
  /\ summary.addr_line = ONION

\* The Tor step was accepted and is over, and the hostname file did not
\* appear within the wait.
NeverAppearedInWait ==
  /\ answers[StepOf("enable_tor")] = "yes"
  /\ status[StepOf("enable_tor")] # "Pending"
  /\ ~AppearedInTime

\* C9: when the Tor step was accepted and the hostname file did not appear
\* within the wait, the process has exited with code 1, the security step
\* was not offered and no summary was printed.
C9_TimeoutIsFatal ==
  NeverAppearedInWait =>
     /\ pc = "exited"
     /\ exitCode = 1
     /\ status[StepOf("enable_tor")] = "FailedFatal"
     /\ StepOf("secure") \notin asked
     /\ status[StepOf("secure")] = "Pending"
     /\ ~summary.printed

\* C9 witness: the poll timed out with the file still absent.
C9_Witness ==
  /\ NeverAppearedInWait
  /\ fatal = "timeout"
  /\ hostname_file = Absent

\* Every step's question was answered no.
AllDeclined == \A s \in Steps : answers[s] = "no"

\* C10: a run whose every confirmation is answered no runs no command and
\* writes no file, ends with exit code 0, and its summary shows the
\* placeholders: "(not generated)" on the address line and the sentinel
\* UNAVAILABLE in the URL.
C10_AllDeclinedRun ==
  AllDeclined =>
     /\ mutated = {}
     /\ torrc = "prior"
     /\ ~fatalHit
     /\ pc \in {"summary", "done"}
     /\ exitCode = (IF pc = "done" THEN 0 ELSE NotExited)
     /\ pc = "done" =>
          /\ summary.printed
          /\ summary.addr_line = NOT_GENERATED
          /\ summary.url = HTTP \o UNAVAILABLE

\* C10 witness: the all-declined run has ended.
C10_Witness == AllDeclined /\ pc = "done" /\ summary.printed

\* The states of a step whose action returned or was declined.
NonFatalTerminal == {"Skipped", "Succeeded", "FailedSoft"}

\* The questions asked so far are those of the first k steps, for some k;
\* the steps before the current one are over, the steps not asked about are
\* untouched, and the declined steps are exactly the Skipped ones.
StepsInDeclarationOrder ==
  /\ asked \in { 1..k : k \in 0..Len(StepNames) }
  /\ \A s \in Steps :
       /\ s \notin asked =>
            (status[s] = "Pending" /\ answers[s] = "none" /\ s \notin mutated)
       /\ (s \in asked /\ s < step) => status[s] \in NonFatalTerminal
       /\ (s \in asked /\ s # step) => status[s] # "Pending"
       /\ status[s] = "Skipped" <=> answers[s] = "no"

\* The current step ends in this transition without a fatal failure.
StepEndsNonFatally ==
  status[step] = "Pending" /\ status'[step] \in NonFatalTerminal

\* C11: the steps are considered in declaration order, one at a time; a
\* declined step becomes Skipped, and after a declined step, as after any
\* step that ends without a fatal failure, main is at the question of the
\* next step (at the final message after the last one).
C11_StepsInOrderSkipNeverBlocks ==
  /\ []StepsInDeclarationOrder
  /\ [][ /\ asked' # asked => asked' = asked \cup {Cardinality(asked) + 1}
         /\ (answers[step] # "no" /\ answers'[step] = "no") =>
              (status'[step] = "Skipped" /\ StepEndsNonFatally)
         /\ StepEndsNonFatally =>
              /\ exitCode' = NotExited
              /\ IF step < Len(StepNames)
                 THEN pc' = "ask" /\ step' = step + 1
                 ELSE pc' = "summary" ]_vars

\* C11 witness: after no, yes, no to the first three steps the question of
\* the fourth step is being asked.
C11_Witness ==
  /\ answers[1] = "no" /\ answers[2] = "yes" /\ answers[3] = "no"
  /\ status[1] = "Skipped" /\ status[2] # "Pending" /\ status[3] = "Skipped"
  /\ pc = "ask" /\ step = 4
  /\ asked = 1..3

SoftSteps ==
  { s \in Steps : \E i \in 1..Len(Commands(s)) : ~Commands(s)[i].exit_on_fail }

\* main is about to run a best-effort command.
AtSoftCommand == pc = "cmd" /\ ~Commands(step)[cmdIdx].exit_on_fail

\* C17 as claimed: the process exits non-zero only on the privilege check, a
\* fatal command failure or the poll timeout.
C17_NonZeroOnlyOnThreeCauses ==
  exitCode \notin {NotExited, 0} => fatal \in {"privilege", "command", "timeout"}

\* C17 as amended: whatever a best-effort command returns, the run goes on
\* with the following command or with what follows the step; only steps
\* with such commands end FailedSoft; a run without a fatal failure that
\* ends has printed the summary and exits with code 0; the process exits
\* non-zero only on the privilege check, a fatal command failure, the poll
\* timeout, or the end of input at a question (uncaught EOFError).
C17_SoftFailuresContinue ==
  /\ [][ AtSoftCommand =>
           /\ pc' # "exited" /\ exitCode' = NotExited
           /\ \/ (pc' = "cmd" /\ step' = step /\ cmdIdx' = cmdIdx + 1)
              \/ (cmdIdx = Len(Commands(step)) /\ pc' \in {"write_torrc", "poll"})
              \/ (cmdIdx = Len(Commands(step)) /\ pc' = AfterStep(step)
                    /\ status'[step] \in {"Succeeded", "FailedSoft"}) ]_vars
  /\ [](\A s \in Steps : status[s] = "FailedSoft" => s \in SoftSteps)
  /\ []((exitCode # NotExited /\ fatal = "none") =>
          (pc = "done" /\ exitCode = 0 /\ summary.printed))
  /\ [](exitCode \notin {NotExited, 0} =>
          /\ exitCode = 1
          /\ fatal \in {"privilege", "command", "timeout", "eof"}
          /\ fatal = "privilege" => euid # 0
          /\ fatal = "command" => fatalHit
          /\ fatal = "timeout" => StepNames[step] = "enable_tor")

\* C17 witness: a completed run (exit code 0) in which commands of the
\* purge, time-sync, SELinux and torrc steps failed.
C17_Witness ==
  /\ pc = "done"
  /\ exitCode = 0
  /\ summary.printed
  /\ status[StepOf("purge")] = "FailedSoft"
  /\ status[StepOf("time_sync")] = "FailedSoft"
  /\ status[StepOf("selinux")] = "FailedSoft"
  /\ status[StepOf("torrc")] = "FailedSoft"
  /\ status[StepOf("enable_tor")] = "FailedSoft"

(***************************************************************************)
(* Claims about the site update wizard                                     *)
(***************************************************************************)

\* The lines of app.py before the wizard ran, and now.
LinesBefore == SplitLines(ReadText(fs0[APP_PATH]))

LinesNow == SplitLines(ReadText(fs[APP_PATH]))

\* edit_only_landing_content went through its loop over the lines.
EditRan == new_message # Unbound /\ u_pc \in {"ask_restart", "restart_service", "final", "done"}

\* Index of the first line the patch pattern matches.
FirstMatch(ls) ==
  CHOOSE i \in 1..Len(ls) :
    LooksLikeReturn(ls[i]) /\ \A j \in 1..(i - 1) : ~LooksLikeReturn(ls[j])

\* C3: the targeted patch rewrites only the first line that matches; every
\* matching line after the first is written back unchanged.
C3_OnlyFirstMatchRewritten ==
  (EditRan /\ Replaced(LinesBefore)) =>
     /\ Len(LinesNow) = Len(LinesBefore)
     /\ \A i \in 1..Len(LinesBefore) :
          (LooksLikeReturn(LinesBefore[i]) /\ i # FirstMatch(LinesBefore)) =>
             LinesNow[i] = LinesBefore[i]

\* Index of the last quote character of a line.
LastQuote(line) ==
  CHOOSE i \in 1..Len(line) :
    line[i] = Q /\ \A j \in (i + 1)..Len(line) : line[j] # Q

\* The line with only its quoted-string portion replaced: the text up to the
\* opening quote and the text after the closing quote are kept.
QuotedPortionReplaced(line, message) ==
  SubSeq(line, 1, Find(line, <<Q>>)) \o message
    \o SubSeq(line, LastQuote(line), Len(line))

\* C4: a rewritten line keeps its prefix up to the quoted string and its
\* numeric status suffix, only the quoted string being replaced by the
\* operator's text; the lines that do not match are unchanged, in order.
C4_PrefixAndSuffixKept ==
  (EditRan /\ Replaced(LinesBefore)) =>
     /\ Len(LinesNow) = Len(LinesBefore)
     /\ \A i \in 1..Len(LinesBefore) :
          IF LooksLikeReturn(LinesBefore[i])
          THEN \/ LinesNow[i] = LinesBefore[i]
               \/ LinesNow[i] = QuotedPortionReplaced(LinesBefore[i], new_message)
          ELSE LinesNow[i] = LinesBefore[i]

\* replace_entire_file replaced a file that existed.
ReplacedExisting == outcome = "replaced" /\ IsFile(fs0, APP_PATH)

\* The new content as the operator supplied it: the bytes of the file named,
\* or the lines typed.
SuppliedContent ==
  IF source = MANUAL THEN Join(lines, <<"\n">>) ELSE fs0[source]

\* C5 as claimed: after a full replacement of an existing file the backup
\* holds the bytes the target held before, and the target holds exactly the
\* new content supplied.
C5_TargetHoldsSuppliedBytes ==
  ReplacedExisting =>
     /\ fs[BAK_PATH] = fs0[APP_PATH]
     /\ fs[APP_PATH] = SuppliedContent

\* C5 as amended: the backup holds the bytes the target held before; the
\* target holds the text of the file named with "\r\n" and "\r" read as
\* "\n", or, in manual mode, the typed lines joined by "\n" and stripped of
\* leading and trailing white space.
C5_BackupExactTargetNormalised ==
  ReplacedExisting =>
     /\ fs[BAK_PATH] = fs0[APP_PATH]
     /\ fs[APP_PATH] = IF source = MANUAL
                       THEN Strip(Join(lines, <<"\n">>))
                       ELSE UniversalNewlines(fs0[source])

\* C5 witness: a replacement from the named file, over an earlier backup.
C5_Witness ==
  /\ ReplacedExisting
  /\ source = SRC_PATH
  /\ fs0[BAK_PATH] = OldBackup
  /\ fs[BAK_PATH] = fs0[APP_PATH]
  /\ fs[APP_PATH] # fs0[APP_PATH]
  /\ fs[APP_PATH] # fs0[SRC_PATH]

\* No write_text and no rename happened in the run.
NothingWritten == \A i \in 1..Len(effects) : effects[i] \notin {"write", "rename"}

\* C6: when no line of the file matches the pattern, the targeted patch
\* writes nothing: every file, the target and the backup among them, is as
\* it was, and the no-replacement warning is the outcome.
C6_NoMatchNoWrite ==
  (EditRan /\ ~Replaced(LinesBefore)) =>
     /\ fs = fs0
     /\ NothingWritten
     /\ outcome = "no_match"

\* C6 witness: the patch ran on a file without a matching line and without a
\* final line end (a write would have added one), and the run is over.
C6_Witness ==
  /\ EditRan
  /\ ~Replaced(LinesBefore)
  /\ fs0[APP_PATH] = LinePlain \o <<"\n">> \o LineRun
  /\ outcome = "no_match"
  /\ u_pc = "done"

\* The operator named a source file that does not exist.
NamedMissingSource ==
  /\ source \notin {NONE, MANUAL}
  /\ source \notin DOMAIN fs0 \/ fs0[source] = Absent

\* C19: when the file named as the source of a full replacement does not
\* exist, the replacement is given up before anything is touched: every
\* file is as it was, no rename and no write happened, the process has not
\* exited on it, and main goes on to the restart question.
C19_MissingSourceAborts ==
  /\ [](NamedMissingSource =>
          /\ outcome = "source_not_found"
          /\ fs = fs0
          /\ NothingWritten
          /\ history = <<>>
          /\ new_content = Unbound
          /\ u_pc \in {"ask_restart", "restart_service", "final", "done", "exited"}
          /\ u_pc = "exited" => u_fatal = "eof"
          /\ u_pc = "done" => u_exitCode = 0)
  /\ [][ (outcome # "source_not_found" /\ outcome' = "source_not_found") =>
           (u_pc' = "ask_restart" /\ u_exitCode' = NotExited) ]_vars

\* C19 witness: the absent new.py was named; the run went on, restarted the
\* service and ended with exit code 0, the backup of an earlier run in place.
C19_Witness ==
  /\ NamedMissingSource
  /\ source = SRC_PATH
  /\ fs[BAK_PATH] = OldBackup
  /\ effects # <<>> /\ effects[Len(effects)] = "restart"
  /\ u_pc = "done"
  /\ u_exitCode = 0

\* A stop command was issued as the i-th event of the run.
StopIssued(i) == effects[i] \in {"stop", "stop_failed"}

\* The target was written or renamed as the i-th event of the run.
TargetTouched(i) == effects[i] \in {"rename", "write"}

\* C20: a stop command is issued only right after the status query of the
\* same run reported the service active and the operator agreed to the stop;
\* after a report that the service is not active, no stop is offered or
\* issued; a stop comes before every write to the target and a restart
\* after every write.
C20_StopOnlyWhenActiveAndAgreed ==
  /\ \A i \in 1..Len(effects) :
       /\ StopIssued(i) =>
            /\ i >= 3
            /\ effects[i - 1] = "agreed_stop"
            /\ effects[i - 2] = "reported_active"
       /\ effects[i] = "agreed_stop" => (i >= 2 /\ effects[i - 1] = "reported_active")
       /\ effects[i] = "reported_not_active" =>
            \A j \in (i + 1)..Len(effects) :
               ~StopIssued(j) /\ effects[j] # "agreed_stop"
       /\ \A j \in 1..Len(effects) :
            /\ (StopIssued(i) /\ TargetTouched(j)) => i < j
            /\ (effects[i] \in {"restart", "restart_failed"} /\ TargetTouched(j)) => j < i
  /\ u_pc \in {"ask_stop_running", "stop_service"} =>
       \E i \in 1..Len(effects) : effects[i] = "reported_active"
  /\ Cardinality({ i \in 1..Len(effects) : StopIssued(i) }) <= 1

\* C20 witness: the service was reported active and stopped on the
\* operator's yes, the file was replaced, and the service was restarted.
C20_Witness ==
  effects = << "reported_active", "agreed_stop", "stop", "rename", "write",
               "agreed_restart", "restart" >>

\* The ways an edit mode returns to main.
EditOutcomes ==
  { "replaced", "source_not_found", "updated", "no_match", "app_not_found",
    "no_message" }

\* The last event of the run is a restart command that failed.
RestartFailed ==
  effects # <<>> /\ effects[Len(effects)] = "restart_failed"

\* C21: an edit mode that returns, whatever it did to the file, returns to
\* the restart question; a restart the operator agreed to and that fails is
\* only reported: the process does not exit there, main goes on to its final
\* message, and the run ends with exit code 0.
C21_RestartFailureNotFatal ==
  /\ [][ (outcome = "none" /\ outcome' \in EditOutcomes) => u_pc' = "ask_restart" ]_vars
  /\ [][ (~RestartFailed /\ RestartFailed') =>
            /\ u_pc = "restart_service"
            /\ effects[Len(effects)] = "agreed_restart"
            /\ u_pc' = "final"
            /\ u_exitCode' = NotExited ]_vars
  /\ [][ u_pc = "final" => (u_pc' = "done" /\ u_exitCode' = 0) ]_vars
  /\ [](RestartFailed =>
          /\ u_pc \in {"final", "done"}
          /\ u_fatal = "none"
          /\ u_exitCode = (IF u_pc = "done" THEN 0 ELSE NotExited))

\* C21 witness: the patch changed nothing, the operator agreed to the
\* restart, the restart failed, and the run ended with exit code 0.
C21_Witness ==
  /\ RestartFailed
  /\ outcome = "no_match"
  /\ u_pc = "done"
  /\ u_exitCode = 0

\* The manual capture loop of this run has ended.
CaptureOver == source = MANUAL /\ u_pc # "manual_input"

\* The lines input() returned before its i-th call in manual capture.
EnteredBefore(i) == SubSeq(typed, 1, i - 1)

\* The i-th call of input() in manual capture met an empty line or the end
\* of input.
EmptyOrEnd(i) == typed[i] \in {<<>>, EOF}

\* The i-th call of input() in manual capture met the end of input, or a
\* line of white space only that was not the first line.
BlankAfterFirstOrEnd(i) ==
  typed[i] = EOF \/ (Strip(typed[i]) = <<>> /\ i > 1)

ReplaceEntered == source # NONE \/ u_pc \in {"backup", "write"}

\* What the target held before the operation is at the target path or at the
\* backup path.
PriorContentKept ==
  fs[APP_PATH] = fs0[APP_PATH] \/ fs[BAK_PATH] = fs0[APP_PATH]

\* The run is between the rename and the end of the write, or ended there.
InReplaceWindow ==
  \/ u_pc = "write"
  \/ u_pc = "exited" /\ u_fatal \in {"interrupted", "exception"}

\* C23: full replacement of an existing target is two separate steps, the
\* rename of the target to the backup path and then the write of the target.
\* In every state of the operation, a state in which it was interrupted or
\* in which the write failed included, what the target held before the
\* operation is at the target path or at the backup path; between the two
\* steps the target path is absent and the backup holds the prior content.
C23_PriorContentSurvives ==
  (ReplaceEntered /\ fs0[APP_PATH] # Absent) =>
    /\ PriorContentKept
    /\ u_pc = "write" => (fs[APP_PATH] = Absent /\ fs[BAK_PATH] = fs0[APP_PATH])
    /\ fs[APP_PATH] # fs0[APP_PATH] => (fs[BAK_PATH] = fs0[APP_PATH] /\ \E i \in 1..Len(effects) : effects[i] = "rename")
    /\ fs[APP_PATH] = Absent => InReplaceWindow

\* C23 witness: the run was interrupted between the rename and the write;
\* the target path is absent, an older backup was overwritten, and the
\* backup path holds what the target held.
C23_Witness ==
  /\ u_pc = "exited"
  /\ u_fatal = "interrupted"
  /\ effects # <<>>
  /\ effects[Len(effects)] = "rename"
  /\ fs[APP_PATH] = Absent
  /\ fs0[BAK_PATH] = OldBackup
  /\ fs[BAK_PATH] = fs0[APP_PATH]

\* C23 witness: the write failed after open() had created the file; the
\* target holds neither the old nor the new content, the backup the old.
C23_WitnessWriteFailed ==
  /\ u_pc = "exited"
  /\ u_fatal = "exception"
  /\ fs[APP_PATH] \notin {Absent, fs0[APP_PATH], new_content}
  /\ fs[BAK_PATH] = fs0[APP_PATH]

\* The operator selected an edit mode that is neither "1" nor "2".
InvalidSelection == mode \notin {Unbound, <<"1">>, <<"2">>}

\* No restart was offered and agreed to, and none was issued, in this run.
NoRestart ==
  \A i \in 1..Len(effects) :
    effects[i] \notin {"agreed_restart", "restart", "restart_failed"}

\* The run issued a stop command that succeeded.
StoppedService == \E i \in 1..Len(effects) : effects[i] = "stop"

\* C24: an edit mode selection other than "1" or "2" ends the run at once
\* with exit code 0: no file, the target and the backup among them, is
\* written, the restart question is never reached and no restart is issued,
\* and a service the run had stopped stays stopped.
C24_InvalidSelectionEndsRun ==
  /\ [](InvalidSelection =>
          /\ u_pc = "done"
          /\ u_exitCode = 0
          /\ u_fatal = "none"
          /\ outcome = "invalid_selection"
          /\ fs = fs0
          /\ NothingWritten
          /\ NoRestart
          /\ StoppedService => svc = "inactive")
  /\ [][ (~InvalidSelection /\ InvalidSelection') =>
            /\ u_pc = "select_mode"
            /\ u_pc' = "done"
            /\ UNCHANGED << fs, svc, effects >> ]_vars
  /\ [][ u_pc' = "ask_restart" => ~InvalidSelection' ]_vars

\* C24 witness: the run stopped the active service, the operator then
\* selected "3", and the run ended with exit code 0, the service stopped
\* and every file as it was.
C24_Witness ==
  /\ mode = <<"3">>
  /\ u_pc = "done"
  /\ u_exitCode = 0
  /\ effects = << "reported_active", "agreed_stop", "stop" >>
  /\ svc = "inactive"
  /\ fs = fs0

\* The fixed backup path of app.py.
FixedBackupPath == <<"a","p","p",".","b","a","k">>

\* The paths at which a file exists.
FilesPresent == { p \in DOMAIN fs : fs[p] # Absent }

\* C18: after one or more full replacements of an existing target the one
\* backup, at the fixed backup path, holds what the target held just before
\* the most recent replacement; an earlier backup was overwritten, and no
\* file other than the target, the backup and the operator's source exists.
C18_SingleGenerationBackup ==
  (outcome = "replaced" /\ history # <<>>) =>
     /\ FixedBackupPath \in DOMAIN fs
     /\ fs[FixedBackupPath] = history[Len(history)]
     /\ FilesPresent \subseteq {APP_PATH, FixedBackupPath, SRC_PATH}

\* C18 witness: two replacements of different contents; the backup holds
\* the second content, not the first, and not the backup there was before.
C18_Witness ==
  /\ outcome = "replaced"
  /\ Len(history) = 2
  /\ history[1] # history[2]
  /\ fs[BAK_PATH] = history[2]
  /\ fs[BAK_PATH] # OldBackup
  /\ fs[APP_PATH] # history[2]

(***************************************************************************)
(* Claims about run_command and ask_user                                   *)
(***************************************************************************)

\* C13: a call of run_command runs its command once; on a zero exit status
\* it returns the trimmed stdout and the process goes on; on a non-zero one
\* it ends the process with exit code 1 when exit_on_fail, and otherwise
\* returns None and the process goes on.
C13_RunCommandClassifies ==
  c_pc \in {"returned", "exited"} =>
     /\ c_executions = 1
     /\ IF c_call.res.rc = 0
        THEN /\ c_pc = "returned"
             /\ c_result = Strip(c_call.res.stdout)
             /\ c_exitCode = NotExited
        ELSE IF c_call.exit_on_fail
        THEN /\ c_pc = "exited"
             /\ c_exitCode = 1
             /\ c_result = Unbound
        ELSE /\ c_pc = "returned"
             /\ c_result = NONE
             /\ c_exitCode = NotExited

\* C13 witness: a failing command run with exit_on_fail=False returned None
\* although it printed something.
C13_Witness ==
  /\ c_pc = "returned"
  /\ c_call.res.rc = 2
  /\ c_call.res.stdout = <<"o","k","\n">>
  /\ ~c_call.exit_on_fail
  /\ c_result = NONE
  /\ c_executions = 1

\* The line, trimmed and in lower case, is an affirmative answer.
IsAffirmative(line) == Lower(Strip(line)) \in { <<"y">>, <<"y","e","s">> }

\* The line, trimmed and in lower case, is a negative answer.
IsNegative(line) == Lower(Strip(line)) \in { <<"n">>, <<"n","o">> }

IsValidAnswer(line) == IsAffirmative(line) \/ IsNegative(line)

\* All the lines of the console of the call, read or not.
WholeConsole == a_typed \o a_console

\* Index of the first valid answer among the lines (0 when there is none).
FirstValid(ls) ==
  IF \E i \in 1..Len(ls) : IsValidAnswer(ls[i])
  THEN CHOOSE i \in 1..Len(ls) :
         IsValidAnswer(ls[i]) /\ \A j \in 1..(i - 1) : ~IsValidAnswer(ls[j])
  ELSE 0

\* C14: ask_user returns True exactly on 'y'/'yes' and False exactly on
\* 'n'/'no' (trimmed, any case); on any other line, the empty one included,
\* it returns nothing, prints the hint and reads again. What it returns is
\* the answer of the first valid line, whatever came before it.
C14_AskUserFirstValidLine ==
  /\ a_pc = "prompt" =>
       /\ a_result = "none"
       /\ a_hints = Len(a_typed)
       /\ \A i \in 1..Len(a_typed) : ~IsValidAnswer(a_typed[i])
  /\ a_pc = "returned" =>
       /\ FirstValid(WholeConsole) = Len(a_typed)
       /\ a_hints = Len(a_typed) - 1
       /\ a_result = "yes" <=> IsAffirmative(a_typed[Len(a_typed)])
       /\ a_result = "no" <=> IsNegative(a_typed[Len(a_typed)])
  /\ a_pc = "EOFError" =>
       /\ a_result = "none"
       /\ FirstValid(WholeConsole) = 0

\* C14 witness: an empty line and a wrong word, then "NO": False is returned
\* after two hints.
C14_Witness ==
  /\ a_pc = "returned"
  /\ a_typed = << <<>>, <<"m","a","y","b","e">>, <<"N","O">> >>
  /\ a_result = "no"
  /\ a_hints = 2

(***************************************************************************)
(* Claims about the three entry points                                     *)
(***************************************************************************)

\* In the provisioning run a step ran a command or wrote the torrc only
\* after the operator answered yes to its question.
SetupStepsGated ==
  /\ \A s \in mutated : answers[s] = "yes" /\ s \in asked
  /\ torrc # "prior" => answers[StepOf("torrc")] = "yes"

\* The questions of the deploy run one of which has to be answered yes
\* before the effect: the question of the step for the installation and for
\* the service; main has no question for the step that writes app.py, so
\* any of its questions is taken.
FlaskQuestionsFor(effect) ==
  CASE effect = "install"                  -> {"ask_install"}
    [] effect \in {"write_unit", "service"} -> {"ask_service"}
    [] OTHER                               -> {"ask_install", "ask_service"}

\* C15 as claimed: in the provisioning run and in the deploy run nothing is
\* done to the host (no command, no torrc, no app.py, no unit file) unless
\* the operator answered yes to a confirmation for it.
C15_NoMutationWithoutYes ==
  /\ SetupStepsGated
  /\ \A i \in 1..Len(f_effects) :
       FlaskQuestionsFor(f_effects[i]) \cap f_confirmed # {}

\* The deploy run is past write_flask_app.
PastWriteApp ==
  f_pc \in {"ask_service", "ask_srv_name", "ask_run_user", "write_unit",
            "service", "final", "done"}

\* C15 as amended: every step of the provisioning run is opt-out; in the
\* deploy run the installation and the service creation are opt-out, while
\* the directory is made and app.py is written in every run that gets past
\* the port question, with no confirmation of its own.
C15_OptOutExceptAppWrite ==
  /\ SetupStepsGated
  /\ \A i \in 1..Len(f_effects) :
       /\ f_effects[i] = "install" => "ask_install" \in f_confirmed
       /\ f_effects[i] \in {"write_unit", "service"} => "ask_service" \in f_confirmed
  /\ PastWriteApp =>
       \E i \in 1..Len(f_effects) : f_effects[i] = "write_app"
  /\ (f_pc = "exited" /\ f_fatal = "command" /\ "ask_service" \in f_confirmed) =>
       \E i \in 1..Len(f_effects) : f_effects[i] = "write_app"

\* C15 witness: a deploy run in which both questions were answered no has
\* made the directory and written app.py.
C15_Witness ==
  /\ f_pc = "done"
  /\ f_confirmed = {}
  /\ f_effects = << "mkdir", "write_app" >>
  /\ f_exitCode = 0

\* Nothing was asked and nothing was done to the host, in any of the scripts.
NothingAskedNothingDone ==
  /\ asked = {} /\ mutated = {} /\ torrc = "prior" /\ runs = [s \in Steps |-> 0]
  /\ effects = <<>> /\ fs = fs0 /\ svc \in {"active", "inactive"}
  /\ f_effects = <<>> /\ f_confirmed = {}

\* A script that was started by a user other than root is at its check or
\* has exited on it with code 1.
NonRootStopsAtCheck ==
  /\ euid # 0 =>
       /\ pc \in {"check_root", "exited"}
       /\ pc = "exited" => (exitCode = 1 /\ fatal = "privilege")
  /\ u_euid # 0 =>
       /\ u_pc \in {"check_root", "exited"}
       /\ u_pc = "exited" => (u_exitCode = 1 /\ u_fatal = "privilege")
  /\ f_euid # 0 =>
       /\ f_pc \in {"check_root", "exited"}
       /\ f_pc = "exited" => (f_exitCode = 1 /\ f_fatal = "privilege")

\* C16: each of the three scripts begins with its superuser check, makes it
\* once, and has asked and done nothing before it; a run that is not
\* superuser ends there with a non-zero exit code, no question asked and
\* nothing changed on the host.
C16_RootCheckFirstAndOnce ==
  /\ {pc, u_pc, f_pc} \subseteq {"idle", "check_root"}
  /\ []((pc = "check_root" \/ u_pc = "check_root" \/ f_pc = "check_root")
          => NothingAskedNothingDone)
  /\ [](NonRootStopsAtCheck)
  /\ []((euid # 0 \/ u_euid # 0 \/ f_euid # 0) => NothingAskedNothingDone)
  /\ [][ /\ pc # "check_root" => pc' # "check_root"
         /\ u_pc # "check_root" => u_pc' # "check_root"
         /\ f_pc # "check_root" => f_pc' # "check_root" ]_vars

\* C16 witness: the update wizard was started by a user other than root on
\* a host with a running service and has exited.
C16_Witness ==
  /\ u_euid # 0
  /\ u_pc = "exited"
  /\ u_exitCode = 1
  /\ svc = "active"
  /\ fs = fs0

====
